---- MODULE Spec2Model ----
(***************************************************************************)
(* A model of the Chip64 virtual machine of src/chip64.py (the interpreter *)
(* that c_mul.py runs; src/chip16.py is not valid Python and cannot be     *)
(* imported), with the bit utilities of src/chip16/chip64_util.py and the  *)
(* console and memory devices of src/chip16_device.py.                     *)
(*                                                                         *)
(* Numbers.  The interpreter stores NumPy scalars and Python ints, and the *)
(* result of an operation depends on the operands' types: uint16 wraps at  *)
(* 2^16, uint64 at 2^64, a Python int adopts the type of a NumPy operand.  *)
(* A number is therefore a record [t, v]: t is the type ("int", "u16",     *)
(* "u64") and v the value as four 16-bit limbs, least significant first.   *)
(***************************************************************************)
EXTENDS Integers, Sequences, FiniteSets, TLC

W == 65536

MemSize == 4096

None == -1

\* ------------------------------------------------------------------ bits

RECURSIVE BitAnd(_, _)
BitAnd(a, b) ==
  IF a = 0 \/ b = 0 THEN 0
  ELSE (a % 2) * (b % 2) + 2 * BitAnd(a \div 2, b \div 2)

RECURSIVE BitOr(_, _)
BitOr(a, b) ==
  IF a = 0 THEN b
  ELSE IF b = 0 THEN a
  ELSE (IF (a % 2) + (b % 2) > 0 THEN 1 ELSE 0) + 2 * BitOr(a \div 2, b \div 2)

RECURSIVE BitXor(_, _)
BitXor(a, b) ==
  IF a = 0 THEN b
  ELSE IF b = 0 THEN a
  ELSE (((a % 2) + (b % 2)) % 2) + 2 * BitXor(a \div 2, b \div 2)

RECURSIVE Pow2(_)
Pow2(n) == IF n = 0 THEN 1 ELSE 2 * Pow2(n - 1)

\* ------------------------------------------------------- chip64_util.py

high_byte(value) == BitAnd(value, 65280) \div 256

low_byte(value) == BitAnd(value, 255)

concat(hb, lb) == BitOr(hb * 256, lb) % W

get_nibble(value, n) == BitAnd(value, 15 * Pow2(4 * n)) \div Pow2(4 * n)

\* ------------------------------------------------- NumPy / Python numbers

Zero4 == <<0, 0, 0, 0>>

PyInt(n) == [t |-> "int", v |-> <<n, 0, 0, 0>>]

U16(n) == [t |-> "u16", v |-> <<n % W, 0, 0, 0>>]

U64(n) == [t |-> "u64", v |-> <<n, 0, 0, 0>>]

\* result type of a binary operation (a Python int is weak)
Promote(t1, t2) ==
  IF t1 = "u64" \/ t2 = "u64" THEN "u64"
  ELSE IF t1 = "u16" \/ t2 = "u16" THEN "u16"
  ELSE "int"

\* the limbs as stored in a value of type t
Fit(t, l) == IF t = "u16" THEN <<l[1], 0, 0, 0>> ELSE l

AddL(a, b) ==
  LET s1 == a[1] + b[1]
      s2 == a[2] + b[2] + (s1 \div W)
      s3 == a[3] + b[3] + (s2 \div W)
      s4 == a[4] + b[4] + (s3 \div W)
  IN  <<s1 % W, s2 % W, s3 % W, s4 % W>>

SubL(a, b) ==
  LET d1 == a[1] - b[1]
      b1 == IF d1 < 0 THEN 1 ELSE 0
      d2 == a[2] - b[2] - b1
      b2 == IF d2 < 0 THEN 1 ELSE 0
      d3 == a[3] - b[3] - b2
      b3 == IF d3 < 0 THEN 1 ELSE 0
      d4 == a[4] - b[4] - b3
  IN  <<d1 % W, d2 % W, d3 % W, d4 % W>>

LtL(a, b) ==
  \/ a[4] < b[4]
  \/ a[4] = b[4] /\ a[3] < b[3]
  \/ a[4] = b[4] /\ a[3] = b[3] /\ a[2] < b[2]
  \/ a[4] = b[4] /\ a[3] = b[3] /\ a[2] = b[2] /\ a[1] < b[1]

\* shifts by n in 1..15 bits
ShlL(a, n) ==
  LET lo(k) == (a[k] * Pow2(n)) % W
      hi(k) == a[k] \div Pow2(16 - n)
  IN  <<lo(1), lo(2) + hi(1), lo(3) + hi(2), lo(4) + hi(3)>>

ShrL(a, n) ==
  LET hi(k) == a[k] \div Pow2(n)
      lo(k) == (a[k] % Pow2(n)) * Pow2(16 - n)
  IN  <<hi(1) + lo(2), hi(2) + lo(3), hi(3) + lo(4), hi(4)>>

NumAdd(a, b) ==
  LET t == Promote(a.t, b.t) IN [t |-> t, v |-> Fit(t, AddL(a.v, b.v))]

NumSub(a, b) ==
  LET t == Promote(a.t, b.t) IN [t |-> t, v |-> Fit(t, SubL(a.v, b.v))]

NumAnd(a, b) ==
  [t |-> Promote(a.t, b.t),
   v |-> <<BitAnd(a.v[1], b.v[1]), BitAnd(a.v[2], b.v[2]),
           BitAnd(a.v[3], b.v[3]), BitAnd(a.v[4], b.v[4])>>]

NumOr(a, b) ==
  [t |-> Promote(a.t, b.t),
   v |-> <<BitOr(a.v[1], b.v[1]), BitOr(a.v[2], b.v[2]),
           BitOr(a.v[3], b.v[3]), BitOr(a.v[4], b.v[4])>>]

NumXor(a, b) ==
  [t |-> Promote(a.t, b.t),
   v |-> <<BitXor(a.v[1], b.v[1]), BitXor(a.v[2], b.v[2]),
           BitXor(a.v[3], b.v[3]), BitXor(a.v[4], b.v[4])>>]

NumShl(a, b, n) ==
  LET t == Promote(a.t, b.t) IN [t |-> t, v |-> Fit(t, ShlL(a.v, n))]

NumShr(a, b, n) ==
  [t |-> Promote(a.t, b.t), v |-> ShrL(a.v, n)]

NumEq(a, b) == a.v = b.v

NumLt(a, b) == LtL(a.v, b.v)

NumGe(a, b) == ~LtL(a.v, b.v)

\* np.uint16(x): the low 16 bits
ToU16(a) == [t |-> "u16", v |-> <<a.v[1], 0, 0, 0>>]

\* np.uint16(b) of a comparison result
BoolU16(b) == U16(IF b THEN 1 ELSE 0)

\* the number is below 2^16, and then its value
IsWord(a) == a.v[2] = 0 /\ a.v[3] = 0 /\ a.v[4] = 0

Val(a) == a.v[1]

\* bit n (0..63) of a number
BitOf(a, n) == (a.v[(n \div 16) + 1] \div Pow2(n % 16)) % 2

\* ------------------------------------------------------------ VM state

\* memory .. alert and devices are the fields of the Chip64 object;
\* format_code is the field of the console shared through defaultDevices,
\* device_ptr and device_memory are the fields of the MemoryDevice of a
\* device table that has one (device_memory holds the cells written so far,
\* every other cell is 0); mode, num_of_cycles and exit are the position in
\* execute(), its local and the way it ended; args are the arguments the
\* object was constructed with; budget, executed and last record the
\* argument of the call, the number of iterations completed in it and the
\* last iteration (opcode and the state it started from)
VARIABLES memory, registers, stack, code_ptr, memory_ptr, alert, devices,
          format_code, device_ptr, device_memory,
          mode, num_of_cycles, exit, args, budget, executed, last,
          tokens, token_index, symbol_table, opcodes, out_file,
          phase, raised, history, call, other

vars == <<memory, registers, stack, code_ptr, memory_ptr, alert, devices,
          format_code, device_ptr, device_memory,
          mode, num_of_cycles, exit, args, budget, executed, last,
          tokens, token_index, symbol_table, opcodes, out_file,
          phase, raised, history, call, other>>

\* the Assembler object, the position of its caller and the record of a
\* call of a module-level function or of a device method
tools == <<tokens, token_index, symbol_table, opcodes, out_file,
           phase, raised, history, call>>

\* the fields of the object and of its devices
fields == <<memory, registers, stack, code_ptr, memory_ptr, alert, devices,
            format_code, device_ptr, device_memory>>

\* the object's fields and those of its devices, as one record the
\* handlers transform; exc names the exception a handler raised
VM ==
  [memory |-> memory, registers |-> registers, stack |-> stack,
   code_ptr |-> code_ptr, memory_ptr |-> memory_ptr, alert |-> alert,
   devices |-> devices, format_code |-> format_code,
   device_ptr |-> device_ptr, device_memory |-> device_memory, exc |-> ""]

Raise(vm, e) == [vm EXCEPT !.exc = e]

\* ------------------------------------------------------------ handlers

\* a return that resumes at address 0 when the stack is empty
subroutine_return_lenient(vm) ==
  IF vm.stack = <<>> THEN [vm EXCEPT !.code_ptr = PyInt(0)]
  ELSE [vm EXCEPT !.code_ptr = vm.stack[Len(vm.stack)],
                  !.stack = SubSeq(vm.stack, 1, Len(vm.stack) - 1)]

subroutine_return(vm) ==
  IF vm.stack = <<>> THEN Raise(vm, "IndexError")
  ELSE [vm EXCEPT !.code_ptr = vm.stack[Len(vm.stack)],
                  !.stack = SubSeq(vm.stack, 1, Len(vm.stack) - 1)]

goto(vm, address) == [vm EXCEPT !.code_ptr = U16(address)]

\* a call that pushes the address after the CALL
subroutine_call_next(vm, address) ==
  [vm EXCEPT !.stack = Append(vm.stack, NumAdd(vm.code_ptr, PyInt(2))),
             !.code_ptr = U16(address)]

subroutine_call(vm, address) ==
  [vm EXCEPT !.stack = Append(vm.stack, vm.code_ptr),
             !.code_ptr = U16(address)]

skip_next_if_equal_const(vm, register_index, constant) ==
  IF NumEq(vm.registers[register_index], U16(constant))
  THEN [vm EXCEPT !.code_ptr = NumAdd(vm.code_ptr, PyInt(2))]
  ELSE vm

\* a skip on the opposite condition
skip_next_if_unequal_const_inverted(vm, register_index, constant) ==
  IF NumEq(vm.registers[register_index], U16(constant))
  THEN [vm EXCEPT !.code_ptr = NumAdd(vm.code_ptr, PyInt(2))]
  ELSE vm

skip_next_if_unequal_const(vm, register_index, constant) ==
  IF ~NumEq(vm.registers[register_index], U16(constant))
  THEN [vm EXCEPT !.code_ptr = NumAdd(vm.code_ptr, PyInt(2))]
  ELSE vm

skip_next_if_equal(vm, dest_index, src_index) ==
  IF NumEq(vm.registers[dest_index], vm.registers[src_index])
  THEN [vm EXCEPT !.code_ptr = NumAdd(vm.code_ptr, PyInt(2))]
  ELSE vm

assign_const_to_register(vm, dest_index, constant) ==
  [vm EXCEPT !.registers[dest_index] = U64(constant)]

add_const_to_register(vm, dest_index, constant) ==
  [vm EXCEPT !.registers[dest_index] =
               NumAdd(vm.registers[dest_index], U64(constant))]

assign_register(vm, dest_index, src_index) ==
  [vm EXCEPT !.registers[dest_index] = vm.registers[src_index]]

bitwise_or(vm, dest_index, src_index) ==
  [vm EXCEPT !.registers[dest_index] =
               NumOr(vm.registers[dest_index], vm.registers[src_index])]

bitwise_and(vm, dest_index, src_index) ==
  [vm EXCEPT !.registers[dest_index] =
               NumAnd(vm.registers[dest_index], vm.registers[src_index])]

bitwise_xor(vm, dest_index, src_index) ==
  [vm EXCEPT !.registers[dest_index] =
               NumXor(vm.registers[dest_index], vm.registers[src_index])]

add_registers(vm, dest_index, src_index) ==
  LET tmp == NumAdd(vm.registers[dest_index], vm.registers[src_index])
      r1  == [vm.registers EXCEPT
                ![15] = BoolU16(NumLt(tmp, vm.registers[dest_index]))]
  IN  [vm EXCEPT !.registers = [r1 EXCEPT ![dest_index] = ToU16(tmp)]]

subtract_registers(vm, dest_index, src_index) ==
  LET r1 == [vm.registers EXCEPT
               ![15] = BoolU16(NumGe(vm.registers[dest_index],
                                     vm.registers[src_index]))]
  IN  [vm EXCEPT !.registers =
         [r1 EXCEPT ![dest_index] = NumSub(r1[dest_index], r1[src_index])]]

\* a shift whose flag is the bit above the last one shifted out
bitwise_right_shift_next_bit(vm, dest_index, src_value) ==
  IF src_value = 0
  THEN [vm EXCEPT !.registers[15] = PyInt(0)]
  ELSE LET tmp == NumAnd(vm.registers[dest_index], U64(Pow2(src_value)))
           r1  == [vm.registers EXCEPT
                     ![15] = PyInt(IF tmp.v # Zero4 THEN 1 ELSE 0)]
       IN  [vm EXCEPT !.registers =
              [r1 EXCEPT ![dest_index] =
                 NumShr(r1[dest_index], U64(src_value), src_value)]]

bitwise_right_shift(vm, dest_index, src_value) ==
  IF src_value = 0
  THEN [vm EXCEPT !.registers[15] = PyInt(0)]
  ELSE LET tmp == NumAnd(vm.registers[dest_index],
                         U64(Pow2(src_value - 1)))
           r1  == [vm.registers EXCEPT
                     ![15] = PyInt(IF tmp.v # Zero4 THEN 1 ELSE 0)]
       IN  [vm EXCEPT !.registers =
              [r1 EXCEPT ![dest_index] =
                 NumShr(r1[dest_index], U64(src_value), src_value)]]

\* 1 << (64 - src_value) is evaluated before np.uint64 is applied to it:
\* in the type of 64 - src_value (uint16) it is 0, in a 64-bit type it is
\* bit 64 - src_value; wide says which of the two the NumPy in use gives
bitwise_left_shift(vm, dest_index, src_value, wide) ==
  IF src_value = 0
  THEN [vm EXCEPT !.registers[15] = PyInt(0)]
  ELSE LET tmp == wide /\ BitOf(vm.registers[dest_index], 64 - src_value) = 1
           r1  == [vm.registers EXCEPT ![15] = PyInt(IF tmp THEN 1 ELSE 0)]
       IN  [vm EXCEPT !.registers =
              [r1 EXCEPT ![dest_index] =
                 NumShl(r1[dest_index], U64(src_value), src_value)]]

skip_next_if_unequal(vm, dest_index, src_index) ==
  IF ~NumEq(vm.registers[dest_index], vm.registers[src_index])
  THEN [vm EXCEPT !.code_ptr = NumAdd(vm.code_ptr, PyInt(2))]
  ELSE vm

set_memory_ptr(vm, value) == [vm EXCEPT !.memory_ptr = U16(value)]

set_code_ptr_to_acc_plus_const(vm, constant) ==
  [vm EXCEPT !.code_ptr = NumAdd(vm.registers[0], U16(constant))]

bitwise_and_rand(vm, dest_index, constant, rnd) ==
  [vm EXCEPT !.registers[dest_index] = NumAnd(U16(rnd), U64(constant))]

add_register_to_memory_ptr(vm, register_index) ==
  [vm EXCEPT !.memory_ptr =
               NumAdd(vm.memory_ptr, vm.registers[register_index])]

\* memory[p] and memory[p + 1] exist
InMemory2(p) == IsWord(p) /\ Val(p) + 1 < MemSize

\* the two reads succeed or raise IndexError; the assignment then names an
\* undefined variable (register) and an undefined utility (build_uint64)
load_registers(vm, register_index) ==
  IF InMemory2(vm.memory_ptr) THEN Raise(vm, "NameError")
  ELSE Raise(vm, "IndexError")

\* ------------------------------------------------------------- devices

\* defaultDevices: the console in slot 0, None in the other fifteen
defaultDevices == [d \in 0..15 |-> IF d = 0 THEN "ConsoleIO" ELSE "None"]

\* a device table with one MemoryDevice object in slots 0 and 1
memoryDevices ==
  [d \in 0..15 |-> IF d \in {0, 1} THEN "MemoryDevice" ELSE "None"]

IsCode(fc, n) == fc.v = <<n, 0, 0, 0>>

\* a bound of a slice of a list of size cells: indices past the end clip
Clip(p, size) == IF IsWord(p) /\ Val(p) < size THEN Val(p) ELSE size

\* len(memory[p : p + n])
SliceLen(p, n) ==
  LET lo == Clip(p, MemSize)
      hi == Clip(NumAdd(p, U16(n)), MemSize)
  IN  IF hi > lo THEN hi - lo ELSE 0

\* MemoryDevice.memory[a]
DeviceCell(vm, a) ==
  IF a \in DOMAIN vm.device_memory THEN vm.device_memory[a] ELSE 0

\* MemoryDevice.read: the slice memory[ptr : ptr + nbytes]
MemoryDevice_read(vm, nbytes) ==
  LET lo == Clip(vm.device_ptr, W)
      hi == Clip(NumAdd(vm.device_ptr, U16(nbytes)), W)
  IN  [k \in 1..(IF hi > lo THEN hi - lo ELSE 0) |->
         DeviceCell(vm, lo + k - 1)]

\* MemoryDevice.write: memory[ptr + i] = byte for each byte in turn; an
\* index past the end raises after the earlier bytes are stored
MemoryDevice_write(vm, bytes) ==
  LET at(i) == NumAdd(vm.device_ptr, PyInt(i))
      bad   == {i \in 0..(Len(bytes) - 1) : ~IsWord(at(i))}
      n     == IF bad = {} THEN Len(bytes)
               ELSE CHOOSE i \in bad : \A j \in bad : i <= j
      cells == {Val(at(i)) : i \in 0..(n - 1)}
      v1    == [vm EXCEPT !.device_memory =
                 [a \in (DOMAIN vm.device_memory) \cup cells |->
                    IF a \in cells
                    THEN bytes[1 + CHOOSE i \in 0..(n - 1) : Val(at(i)) = a]
                    ELSE vm.device_memory[a]]]
  IN  IF bad = {} THEN v1 ELSE Raise(v1, "IndexError")

\* the loop of opcode DXNN over zip(memory[i : i + len(values)], values):
\* its body ptr = value binds a local name and assigns no cell of memory
copy_values(vm, values) == vm

\* opcode DXNN.  ConsoleIO.read: format code 0 or 1 calls input() nbytes
\* times (ok: every line converts), any other code returns None and
\* len(None) raises
read_device(vm, device, nbytes, ok) ==
  IF vm.devices[device] = "None" THEN Raise(vm, "AttributeError")
  ELSE IF vm.devices[device] = "MemoryDevice"
       THEN copy_values(vm, MemoryDevice_read(vm, nbytes))
  ELSE IF ~(IsCode(vm.format_code, 0) \/ IsCode(vm.format_code, 1))
       THEN Raise(vm, "TypeError")
  ELSE IF nbytes > 0 /\ ~ok THEN Raise(vm, "ValueError")
  ELSE vm

\* opcode FXNN on the slice memory[memory_ptr : memory_ptr + NN].
\* ConsoleIO.write: format code 1 indexes byte_list[0] and calls hex() on
\* the whole list for every further byte
write_device(vm, device, nbytes) ==
  LET len    == SliceLen(vm.memory_ptr, nbytes)
      lo     == Clip(vm.memory_ptr, MemSize)
      values == [k \in 1..len |-> vm.memory[lo + k - 1]]
  IN
  IF vm.devices[device] = "None" THEN Raise(vm, "AttributeError")
  ELSE IF vm.devices[device] = "MemoryDevice"
       THEN MemoryDevice_write(vm, values)
  ELSE IF IsCode(vm.format_code, 1) /\ len = 0 THEN Raise(vm, "IndexError")
  ELSE IF IsCode(vm.format_code, 1) /\ len > 1 THEN Raise(vm, "TypeError")
  ELSE vm

set_device_ptr(vm, device) ==
  IF vm.devices[device] = "None" THEN Raise(vm, "AttributeError")
  ELSE IF vm.devices[device] = "MemoryDevice"
       THEN [vm EXCEPT !.device_ptr = vm.registers[15]]
  ELSE [vm EXCEPT !.format_code = vm.registers[15]]

get_device_ptr(vm, device) ==
  IF vm.devices[device] = "None" THEN Raise(vm, "AttributeError")
  ELSE IF vm.devices[device] = "MemoryDevice"
       THEN [vm EXCEPT !.registers[15] = vm.device_ptr]
  ELSE [vm EXCEPT !.registers[15] = vm.format_code]

\* ------------------------------------------------------------- execute

RET == 494

\* the opcode at code_ptr
Fetch(vm) == concat(vm.memory[Val(vm.code_ptr)], vm.memory[Val(vm.code_ptr) + 1])

\* the 8XYn family
Dispatch8(vm, opcode) ==
  LET nib0 == get_nibble(opcode, 0)
      X    == get_nibble(opcode, 2)
      Y    == get_nibble(opcode, 1)
  IN  CASE nib0 = 0 -> assign_register(vm, X, Y)
        [] nib0 = 1 -> bitwise_or(vm, X, Y)
        [] nib0 = 2 -> bitwise_and(vm, X, Y)
        [] nib0 = 3 -> bitwise_xor(vm, X, Y)
        [] nib0 = 4 -> add_registers(vm, X, Y)
        [] nib0 = 5 -> subtract_registers(vm, X, Y)
        [] nib0 = 6 -> bitwise_right_shift(vm, X, Y)
        [] nib0 = 7 -> subtract_registers(vm, Y, X)
        [] OTHER    -> vm

\* the EXnn family; spill_registers is not a method of the class
DispatchE(vm, opcode) ==
  LET lb == low_byte(opcode)
      X  == get_nibble(opcode, 2)
  IN  CASE lb = 0  -> set_device_ptr(vm, X)
        [] lb = 1  -> get_device_ptr(vm, X)
        [] lb = 30 -> add_register_to_memory_ptr(vm, X)
        [] lb = 85 -> Raise(vm, "AttributeError")
        [] lb = 101 -> load_registers(vm, X)
        [] OTHER   -> vm

\* the handler call of one loop iteration; ch is the outcome of what the
\* handler leaves open (the random byte, the console input, the shift mask)
Dispatch(vm, opcode, ch) ==
  LET nib3 == get_nibble(opcode, 3)
      X    == get_nibble(opcode, 2)
      Y    == get_nibble(opcode, 1)
      NN   == low_byte(opcode)
      NNN  == BitAnd(opcode, 4095)
      v0   == IF opcode = RET THEN subroutine_return(vm) ELSE vm
  IN  IF v0.exc # "" THEN v0
      ELSE CASE nib3 = 1  -> goto(v0, NNN)
             [] nib3 = 2  -> subroutine_call(v0, NNN)
             [] nib3 = 3  -> skip_next_if_equal_const(v0, X, NN)
             [] nib3 = 4  -> skip_next_if_unequal_const(v0, X, NN)
             [] nib3 = 5  -> skip_next_if_equal(v0, X, Y)
             [] nib3 = 6  -> assign_const_to_register(v0, X, NN)
             [] nib3 = 7  -> add_const_to_register(v0, X, NN)
             [] nib3 = 8  ->
                  IF get_nibble(opcode, 0) = 14
                  THEN bitwise_left_shift(v0, X, Y, ch = 1)
                  ELSE Dispatch8(v0, opcode)
             [] nib3 = 9  -> skip_next_if_unequal(v0, X, Y)
             [] nib3 = 10 -> set_memory_ptr(v0, NNN)
             [] nib3 = 11 -> set_code_ptr_to_acc_plus_const(v0, NNN)
             [] nib3 = 12 -> bitwise_and_rand(v0, X, NN, ch)
             [] nib3 = 13 -> read_device(v0, X, NN, ch = 1)
             [] nib3 = 14 -> DispatchE(v0, opcode)
             [] nib3 = 15 -> write_device(v0, X, NN)
             [] OTHER     -> v0

\* code_ptr_increment_flag after the handler
IncrementFlag(opcode) == get_nibble(opcode, 3) \notin {1, 2, 11}

\* one iteration of the loop for a non-HLT opcode
Iteration(vm, opcode, ch) ==
  LET v1 == Dispatch(vm, opcode, ch)
  IN  IF v1.exc # "" \/ ~IncrementFlag(opcode) THEN v1
      ELSE [v1 EXCEPT !.code_ptr = NumAdd(v1.code_ptr, PyInt(2))]

\* what a handler leaves open for this opcode
Choices(opcode) ==
  LET nib3 == get_nibble(opcode, 3)
  IN  IF nib3 = 12 THEN 0..255
      ELSE IF nib3 = 13 \/ (nib3 = 8 /\ get_nibble(opcode, 0) = 14)
           THEN {0, 1}
      ELSE {0}

\* a loop that runs once more when the count is already spent
LoopCondition_inclusive == num_of_cycles = None \/ num_of_cycles >= 0

LoopCondition == num_of_cycles = None \/ num_of_cycles > 0

\* ------------------------------------------------------- code images

MaxProgLen == 2

MaxCycles == 1

MaxSteps == 12

\* the bytes of a sequence of words, high byte first
Bytes(ws) ==
  [k \in 1..(2 * Len(ws)) |->
     IF k % 2 = 1 THEN high_byte(ws[(k + 1) \div 2])
     ELSE low_byte(ws[k \div 2])]

\* an image that places the words of far at byte address at
Far(ws, at, far) ==
  [k \in 1..(at + 2 * Len(far)) |->
     IF k <= 2 * Len(ws) THEN Bytes(ws)[k]
     ELSE IF k > at THEN Bytes(far)[k - at]
     ELSE 0]

Seqs(ops) == UNION {[1..n -> ops] : n \in 1..MaxProgLen}

\* arithmetic programs: every sequence of these words up to MaxProgLen
AluOps ==
  { 24831,   \* 60FF  acr r0, FF
    24961,   \* 6181  acr r1, 81
    28421,   \* 6F05  acr rF, 05
    28927,   \* 70FF  adc r0, FF
    33028,   \* 8104  add r1, r0
    36852,   \* 8FF4  add rF, rF
    32789,   \* 8015  sub r0, r1
    32790,   \* 8016  shr r0, 1
    32926,   \* 809E  shl r0, 9
    57601 }  \* E101  dpg dev1

\* and programs that bring a register to a large value and then apply one
\* operation to it, for every second operand
AluScenarios ==
  {<<24831, 32926, 32774 + 16 * Y>> : Y \in 0..15}       \* shr r0, Y
    \cup {<<24961, 32789, 32774 + 16 * Y>> : Y \in 0..15}
    \cup {<<24831, 32926, 32782 + 16 * Y>> : Y \in 0..15} \* shl r0, Y
    \cup {<<28421, 36614 + 16 * Y>> : Y \in 0..2}         \* shr rF, Y
    \cup {<<28421, 36622 + 16 * Y>> : Y \in 0..2}         \* shl rF, Y
    \cup { <<24831, 28927, 32772, 0>>,      \* S3: acr, adc, add r0, r0
           <<24831, 32910, 32772>>,         \* acr; shl r0, 8; add r0, r0
           <<24831, 32910, 33028, 33044>>,  \* ...; add r1, r0; add r1, r1
           <<28421, 33013>>,                \* acr rF; sub r0, rF
           <<24961, 32784, 32789>>,         \* ar r0, r1; sub r0, r1
           <<24831, 24961, 32785, 32786, 32787>>,  \* or, and, xor
           <<24961, 32791>>,                \* rsub r0, r1
           <<24961, 33031>>,                \* acr r1; rsub r1, r0
           <<24831, 32910, 28927, 28927>>,  \* r0 = FF00; adc r0, FF twice
           <<1, 32776, 57599, 24831>>,      \* 0001, 8008, E0FF; acr
           <<57429>>,                       \* spl r0
           <<57445>>,                       \* ldr r0
           <<49411, 33028>>,                \* bar r1, 03
           <<28421, 57344, 24576, 57345>> } \* dps dev0; dpg dev0

Programs == Seqs(AluOps) \cup AluScenarios

\* an image that fills the memory and one that is a byte longer
Full == Far(<<24831>>, MemSize - 2, <<24831>>)

TooLarge == Far(<<24831>>, MemSize - 1, <<24831>>)

CodeImages == {Bytes(p) : p \in Programs} \cup {Full, TooLarge}

\* control-flow programs
FlowOps ==
  { 24581,   \* 6005  acr r0, 05
    12293,   \* 3005  snec r0, 05
    16389,   \* 4005  snuec r0, 05
    20496,   \* 5010  sne r0, r1
    36880,   \* 9010  snue r0, r1
    4096,    \* 1000  goto 000
    8194,    \* 2002  call 002
    494,     \* 01EE  ret
    45058 }  \* B002  cpac 002

S2 == Far(<<8448, 0>>, 256, <<24642, 494>>)

S5 == Bytes(<<24581, 12293, 25002, 25275, 0>>)

FlowScenarios ==
  { S2, S5,
    Bytes(<<8196, 0, 8200, 494, 24663, 494>>),     \* nested calls
    Bytes(<<24831, 40960, 61440, 57374>>),         \* smp, wrb, mpar
    Far(<<8190>>, 4094, <<24831>>),                \* goto FFE; acr at FFE
    Far(<<24581, 8190>>, 4094, <<12293>>),         \* goto FFE; snec at FFE
    Bytes(<<24831, 49151>>) }                      \* cpac FFF

FlowImages == {Bytes(p) : p \in Seqs(FlowOps)} \cup FlowScenarios

\* programs for a machine with a MemoryDevice
DeviceOps ==
  { 61442,   \* F002  wrb dev0, 2
    53250,   \* D002  rdb dev0, 2
    53762,   \* D202  rdb dev2, 2
    40964,   \* A004  smp 004
    45055,   \* AFFF  smp FFF
    28417,   \* 6F01  acr rF, 01
    57344,   \* E000  dps dev0
    57345,   \* E001  dpg dev0
    57429,   \* E055  spl r0
    57445 }  \* E065  ldr r0

S6 == Bytes(<<40960, 61442, 40976, 53250, 0>>)

\* the program of c_mul.py
c_mul ==
  << 61697,   \* F101
     25088,   \* 6200  total = 0
     25344,   \* 6300  r3 = 0
     17216,   \* 4340  skip next if r3 # 64
     4120,    \* 1018  goto loop_end
     32790,   \* 8016  r0 >>= 1
     16128,   \* 3F00  skip next if carry = 0
     33300,   \* 8214  total += r1
     33054,   \* 811E  r1 <<= 1
     29441,   \* 7301  r3 += 1
     4104 >>  \* 1008  goto loop_top

DeviceScenarios ==
  { S6,
    Bytes(<<28417, 57344, 40964, 61442, 57345>>),  \* cursor 1; wrb; dpg
    Bytes(<<45055, 24831, 57374, 61442>>),         \* i = 0x10FE; wrb
    Bytes(<<45055, 24831, 57374, 53250>>),         \* i = 0x10FE; rdb
    Bytes(<<45055, 24831, 57374, 57445>>),         \* i = 0x10FE; ldr
    Bytes(<<40964, 24578, 57374, 57429>>),         \* i = 4 + 2; spl
    Bytes(<<40964, 24578, 57374, 61442>>) }        \* i = 4 + 2; wrb

DeviceImages == {Bytes(p) : p \in Seqs(DeviceOps)} \cup DeviceScenarios

\* a copy that starts at address 1
Load_shifted(code) ==
  [a \in 0..(MemSize - 1) |->
     IF 0 < a /\ a <= Len(code) THEN code[a] ELSE 0]

\* Chip64.__init__ copies the image to the start of a zeroed memory
Load(code) ==
  [a \in 0..(MemSize - 1) |-> IF a < Len(code) THEN code[a + 1] ELSE 0]

NoLast == [kind |-> "none"]

\* no second Chip64 object has been constructed
Single == other = [kind |-> "none"]

\* the fields after Chip64(code, table), with regs in the registers: an
\* image longer than the memory raises IndexError at memory[4096] = byte and
\* no object is produced
Fresh(code, table, regs, first) ==
  /\ memory = Load(code)
  /\ args = [code |-> code, devices |-> table]
  /\ mode = IF Len(code) > MemSize THEN "failed" ELSE "idle"
  /\ exit = IF Len(code) > MemSize THEN "IndexError" ELSE ""
  /\ registers = regs
  /\ stack = <<>>
  /\ code_ptr = PyInt(0)
  /\ memory_ptr = PyInt(0)
  /\ alert = FALSE
  /\ devices = table
  /\ format_code = U16(0)
  /\ device_ptr = U16(0)
  /\ device_memory = <<>>
  /\ num_of_cycles = None
  /\ budget = None
  /\ executed = 0
  /\ last = first

Constructed(images, table) ==
  \E code \in images : Fresh(code, table, [r \in 0..15 |-> U16(0)], NoLast)

\* S1: the machine of c_mul.py with r0 = 0x000D and r1 = 0x0011 assigned
\* before execute is called
S1Start(table) ==
  \E r0 \in {PyInt(13), U16(13), U64(13)},
     r1 \in {PyInt(17), U16(17), U64(17)} :
    Fresh(Bytes(c_mul), table,
          [r \in 0..15 |-> IF r = 0 THEN r0 ELSE IF r = 1 THEN r1 ELSE U16(0)],
          [kind |-> "assigned"])

\* no Assembler has been constructed
NoAssembler ==
  /\ tokens = <<>>
  /\ token_index = 0
  /\ symbol_table = <<>>
  /\ opcodes = <<>>
  /\ out_file = <<>>
  /\ phase = "none"
  /\ raised = ""
  /\ history = <<>>

\* and no function has been called
NoTools == NoAssembler /\ call = [fn |-> "none"]

Init == Constructed(CodeImages, defaultDevices) /\ NoTools /\ Single

InitFlow == Constructed(FlowImages, defaultDevices) /\ NoTools /\ Single

InitDevice ==
  /\ Constructed(DeviceImages, memoryDevices) \/ S1Start(memoryDevices)
  /\ NoTools
  /\ Single

\* ------------------------------------------------------------- actions

\* a call of execute(num_of_cycles) on a constructed or reset machine
Execute ==
  /\ UNCHANGED <<tools, other>>
  /\ mode = "idle"
  /\ \E n \in {None} \cup 0..MaxCycles :
       /\ num_of_cycles' = n
       /\ budget' = n
  /\ mode' = "running"
  /\ executed' = 0
  /\ exit' = ""
  /\ UNCHANGED <<fields, args, last>>

\* the while condition is false: execute returns
Return ==
  /\ UNCHANGED <<tools, other>>
  /\ mode = "running"
  /\ ~LoopCondition
  /\ mode' = "done"
  /\ exit' = "cycles"
  /\ UNCHANGED <<fields, args, num_of_cycles, budget, executed, last>>

Running == mode = "running" /\ LoopCondition

\* the fields of the object take the values of the record
Store(vm) ==
  /\ memory' = vm.memory
  /\ registers' = vm.registers
  /\ stack' = vm.stack
  /\ code_ptr' = vm.code_ptr
  /\ memory_ptr' = vm.memory_ptr
  /\ alert' = vm.alert
  /\ devices' = vm.devices
  /\ format_code' = vm.format_code
  /\ device_ptr' = vm.device_ptr
  /\ device_memory' = vm.device_memory

\* the record of an iteration: its opcode and the state it started from
Last(kind, opcode) ==
  [kind |-> kind, opcode |-> opcode, registers |-> registers,
   stack |-> stack, code_ptr |-> code_ptr, memory_ptr |-> memory_ptr,
   alert |-> alert, devices |-> devices, format_code |-> format_code,
   device_ptr |-> device_ptr, device_memory |-> device_memory]

\* opcode 0x0000 is decoded: execute returns
Halt ==
  /\ UNCHANGED <<tools, other>>
  /\ Running
  /\ InMemory2(code_ptr)
  /\ Fetch(VM) = 0
  /\ mode' = "done"
  /\ exit' = "hlt"
  /\ last' = Last("halt", 0)
  /\ UNCHANGED <<fields, args, num_of_cycles, budget, executed>>

\* one iteration that runs to its end
Step ==
  /\ UNCHANGED <<tools, other>>
  /\ Running
  /\ executed < MaxSteps
  /\ InMemory2(code_ptr)
  /\ Fetch(VM) # 0
  /\ \E ch \in Choices(Fetch(VM)) :
       LET vm == Iteration(VM, Fetch(VM), ch) IN
       /\ vm.exc = ""
       /\ Store(vm)
  /\ num_of_cycles' = IF num_of_cycles = None THEN None
                      ELSE num_of_cycles - 1
  /\ executed' = executed + 1
  /\ last' = Last("step", Fetch(VM))
  /\ UNCHANGED <<mode, args, budget, exit>>

\* one iteration that raises: the exception leaves execute
Fault ==
  /\ UNCHANGED <<tools, other>>
  /\ Running
  /\ \/ /\ ~InMemory2(code_ptr)
        /\ exit' = "IndexError"
        /\ last' = Last("fetch", 0)
        /\ UNCHANGED fields
     \/ /\ InMemory2(code_ptr)
        /\ Fetch(VM) # 0
        /\ \E ch \in Choices(Fetch(VM)) :
             LET vm == Iteration(VM, Fetch(VM), ch) IN
             /\ vm.exc # ""
             /\ Store(vm)
             /\ exit' = vm.exc
        /\ last' = Last("fault", Fetch(VM))
  /\ mode' = "done"
  /\ UNCHANGED <<args, num_of_cycles, budget, executed>>

\* reset() calls __init__() with its default arguments
Reset ==
  /\ UNCHANGED <<tools, other>>
  /\ mode \in {"idle", "done"}
  /\ memory' = Load(<<>>)
  /\ registers' = [r \in 0..15 |-> U16(0)]
  /\ stack' = <<>>
  /\ code_ptr' = PyInt(0)
  /\ memory_ptr' = PyInt(0)
  /\ alert' = FALSE
  /\ devices' = defaultDevices
  /\ mode' = "idle"
  /\ num_of_cycles' = None
  /\ exit' = ""
  /\ budget' = None
  /\ executed' = 0
  /\ last' = [kind |-> "reset"]
  /\ UNCHANGED <<format_code, device_ptr, device_memory, args>>

Next == Execute \/ Return \/ Halt \/ Step \/ Fault \/ Reset

Spec == Init /\ [][Next]_vars

SpecFlow == InitFlow /\ [][Next]_vars

SpecDevice == InitDevice /\ [][Next]_vars

\* ------------------------------------------------- chip16_asm.py: tokens

\* A Python string is a sequence of one-character strings.
Digits == <<"0", "1", "2", "3", "4", "5", "6", "7", "8", "9">>

Lower ==
  << "a", "b", "c", "d", "e", "f", "g", "h", "i", "j", "k", "l", "m",
     "n", "o", "p", "q", "r", "s", "t", "u", "v", "w", "x", "y", "z" >>

Capital ==
  << "A", "B", "C", "D", "E", "F", "G", "H", "I", "J", "K", "L", "M",
     "N", "O", "P", "Q", "R", "S", "T", "U", "V", "W", "X", "Y", "Z" >>

\* the position of a character in a list of characters, 0 when absent
Find(char, list) ==
  IF \E j \in DOMAIN list : list[j] = char
  THEN CHOOSE j \in DOMAIN list : list[j] = char
  ELSE 0

\* str.upper()
upper(string) ==
  [k \in 1..Len(string) |->
     IF Find(string[k], Lower) > 0 THEN Capital[Find(string[k], Lower)]
     ELSE string[k]]

\* string[n:]
From(string, n) == SubSeq(string, n + 1, Len(string))

\* the digits that hex() writes for a non-negative int
RECURSIVE HexDigits(_)
HexDigits(i) ==
  LET digit(d) == IF d < 10 THEN Digits[d + 1] ELSE Lower[d - 9]
  IN  IF i < 16 THEN <<digit(i)>>
      ELSE HexDigits(i \div 16) \o <<digit(i % 16)>>

hex(i) == <<"0", "x">> \o HexDigits(i)

\* a reading of the digits that knows no capital letters
DigitValue_lowercase(char) ==
  IF Find(char, Digits) > 0 THEN Find(char, Digits) - 1
  ELSE IF Find(char, SubSeq(Lower, 1, 6)) > 0
       THEN 9 + Find(char, SubSeq(Lower, 1, 6))
  ELSE None

\* the value int(_, 16) gives a character, None for a character that is
\* not a hexadecimal digit
DigitValue(char) ==
  IF Find(char, Digits) > 0 THEN Find(char, Digits) - 1
  ELSE IF Find(char, SubSeq(Lower, 1, 6)) > 0
       THEN 9 + Find(char, SubSeq(Lower, 1, 6))
  ELSE IF Find(char, SubSeq(Capital, 1, 6)) > 0
       THEN 9 + Find(char, SubSeq(Capital, 1, 6))
  ELSE None

\* int(string, 16) raises no ValueError (for a token made of letters and
\* digits: no sign, no 0x prefix, no underscore)
is_hex(string) ==
  /\ Len(string) > 0
  /\ \A k \in 1..Len(string) : DigitValue(string[k]) # None

\* int(string, 16) of a string for which is_hex holds
RECURSIVE to_hex(_)
to_hex(string) ==
  IF Len(string) = 0 THEN 0
  ELSE 16 * to_hex(SubSeq(string, 1, Len(string) - 1))
       + DigitValue(string[Len(string)])

register_mnemonics ==
  [i \in 1..16 |-> <<"r">> \o upper(From(hex(i - 1), 2))]

device_mnemonics ==
  [i \in 1..16 |-> <<"d", "e", "v">> \o upper(From(hex(i - 1), 2))]

\* token in list
In(token, list) == \E k \in DOMAIN list : list[k] = token

\* the result of a call whose assert fails
AssertionError == -2

reg_tk_int(token) ==
  IF ~In(token, register_mnemonics) THEN AssertionError
  ELSE to_hex(From(token, Len(<<"r">>)))

dev_tk_int(token) ==
  IF ~In(token, device_mnemonics) THEN AssertionError
  ELSE to_hex(From(token, Len(<<"d", "e", "v">>)))

\* a << n on Python ints
Shl(a, n) == a * Pow2(n)

\* a packing that puts the fields in the word least significant first
build_opcode_reversed(ops) ==
  IF Len(ops) = 4
  THEN IF ops[1] < 16 /\ ops[2] < 16 /\ ops[3] < 16 /\ ops[4] < 16
       THEN BitOr(BitOr(BitOr(Shl(ops[4], 12), Shl(ops[3], 8)),
                        Shl(ops[2], 4)), ops[1])
       ELSE AssertionError
  ELSE IF Len(ops) = 3
  THEN IF /\ 0 <= ops[1] /\ ops[1] < 16
          /\ 0 <= ops[2] /\ ops[2] < 16
          /\ 0 <= ops[3] /\ ops[3] < 256
       THEN BitOr(BitOr(Shl(ops[3], 8), Shl(ops[2], 4)), ops[1])
       ELSE AssertionError
  ELSE IF Len(ops) = 2
  THEN IF 0 <= ops[1] /\ ops[1] < 16 /\ 0 <= ops[2] /\ ops[2] < 4096
       THEN BitOr(Shl(ops[2], 4), ops[1])
       ELSE AssertionError
  ELSE None

\* build_opcode: the np.uint16 of the packed fields (they are below 2^16
\* when the asserts hold); a tuple of another length returns None
build_opcode(ops) ==
  IF Len(ops) = 4
  THEN IF ops[1] < 16 /\ ops[2] < 16 /\ ops[3] < 16 /\ ops[4] < 16
       THEN BitOr(BitOr(BitOr(Shl(ops[1], 12), Shl(ops[2], 8)),
                        Shl(ops[3], 4)), ops[4])
       ELSE AssertionError
  ELSE IF Len(ops) = 3
  THEN IF /\ 0 <= ops[1] /\ ops[1] < 16
          /\ 0 <= ops[2] /\ ops[2] < 16
          /\ 0 <= ops[3] /\ ops[3] < 256
       THEN BitOr(BitOr(Shl(ops[1], 12), Shl(ops[2], 8)), ops[3])
       ELSE AssertionError
  ELSE IF Len(ops) = 2
  THEN IF 0 <= ops[1] /\ ops[1] < 16 /\ 0 <= ops[2] /\ ops[2] < 4096
       THEN BitOr(Shl(ops[1], 12), ops[2])
       ELSE AssertionError
  ELSE None

\* ---------------------------------------------- chip16_asm.py: Assembler

\* the Assembler object as a record; exc names the exception a method
\* raised
Assembler ==
  [tokens |-> tokens, token_index |-> token_index,
   symbol_table |-> symbol_table, opcodes |-> opcodes,
   history |-> history, exc |-> ""]

AsmRaise(a, e) == [a EXCEPT !.exc = e]

\* self.token_index += 1
Bump(a) == [a EXCEPT !.token_index = @ + 1]

\* self.tokens[self.token_index] exists (an index past the end raises
\* IndexError)
HasToken(a) == a.token_index < Len(a.tokens)

\* self.tokens[self.token_index]
Tok(a) == a.tokens[a.token_index + 1]

\* self.opcodes.append(opcode) of a build_opcode whose assert may fail
Emit(a, opcode) ==
  IF opcode = AssertionError THEN AsmRaise(a, "AssertionError")
  ELSE [a EXCEPT !.opcodes = Append(@, opcode)]

\* table[key] = value on a dict
Put(table, key, value) ==
  [k \in (DOMAIN table) \cup {key} |-> IF k = key THEN value ELSE table[k]]

IsRegister(token) == In(token, register_mnemonics)

IsDevice(token) == In(token, device_mnemonics)

\* np.uint16(n)
Word(n) == n % W

\* the emitters: a token that is missing raises IndexError where it is
\* indexed, one of the wrong kind raises SyntaxError
assemble_r2r(a, op1, op2) ==
  LET a1 == Bump(a)
      a2 == Bump(a1)
      a3 == Bump(a2)
  IN  IF ~HasToken(a1) THEN AsmRaise(a1, "IndexError")
      ELSE IF ~IsRegister(Tok(a1)) THEN AsmRaise(a1, "SyntaxError")
      ELSE IF ~HasToken(a2) THEN AsmRaise(a2, "IndexError")
      ELSE IF Tok(a2) # <<",">> THEN AsmRaise(a2, "SyntaxError")
      ELSE IF ~HasToken(a3) THEN AsmRaise(a3, "IndexError")
      ELSE IF ~IsRegister(Tok(a3)) THEN AsmRaise(a3, "SyntaxError")
      ELSE Emit(a3, build_opcode(<<op1, reg_tk_int(Tok(a1)),
                                   reg_tk_int(Tok(a3)), op2>>))

assemble_cg(a, op1) ==
  LET a1 == Bump(a) IN
  IF ~HasToken(a1) THEN AsmRaise(a1, "IndexError")
  ELSE
    LET symbol  == Tok(a1)
        entries == a1.symbol_table[symbol]
        labels  == {k \in DOMAIN entries : entries[k][1] = "label"}
        first   == CHOOSE k \in labels : \A j \in labels : k <= j
    IN
    IF symbol \in DOMAIN a1.symbol_table
    THEN IF labels # {}
         THEN Emit(a1, build_opcode(<<op1, entries[first][2]>>))
         ELSE Emit([a1 EXCEPT !.symbol_table[symbol] =
                      Append(@, <<"goto", Word(2 * Len(a1.opcodes) + 2)>>)],
                   build_opcode(<<op1, 0>>))
    ELSE Emit([a1 EXCEPT !.symbol_table =
                 Put(@, symbol, <<<<"goto", Word(2 * Len(a1.opcodes))>>>>)],
              build_opcode(<<op1, 0>>))

assemble_const(a, op1) ==
  LET a1 == Bump(a) IN
  IF ~HasToken(a1) THEN AsmRaise(a1, "IndexError")
  ELSE IF ~is_hex(Tok(a1)) THEN AsmRaise(a1, "SyntaxError")
  ELSE Emit(a1, build_opcode(<<op1, BitAnd(to_hex(Tok(a1)), 4095)>>))

assemble_dp(a, op) ==
  LET a1 == Bump(a) IN
  IF ~HasToken(a1) THEN AsmRaise(a1, "IndexError")
  ELSE IF ~IsDevice(Tok(a1)) THEN AsmRaise(a1, "SyntaxError")
  ELSE Emit(a1, build_opcode(<<14, dev_tk_int(Tok(a1)), op>>))

assemble_drw(a, op1) ==
  LET a1 == Bump(a)
      a2 == Bump(a1)
      a3 == Bump(a2)
  IN  IF ~HasToken(a1) THEN AsmRaise(a1, "IndexError")
      ELSE IF ~IsDevice(Tok(a1)) THEN AsmRaise(a1, "SyntaxError")
      ELSE IF ~HasToken(a2) THEN AsmRaise(a2, "IndexError")
      ELSE IF Tok(a2) # <<",">> THEN AsmRaise(a2, "SyntaxError")
      ELSE IF ~HasToken(a3) THEN AsmRaise(a3, "IndexError")
      ELSE IF ~is_hex(Tok(a3)) THEN AsmRaise(a3, "SyntaxError")
      ELSE Emit(a3, build_opcode(<<op1, dev_tk_int(Tok(a1)),
                                   to_hex(Tok(a3))>>))

assemble_mem(a, op1, op2) ==
  LET a1 == Bump(a) IN
  IF ~HasToken(a1) THEN AsmRaise(a1, "IndexError")
  ELSE IF ~IsRegister(Tok(a1)) THEN AsmRaise(a1, "SyntaxError")
  ELSE Emit(a1, build_opcode(<<op1, reg_tk_int(Tok(a1)), op2>>))

assemble_rconst(a, op1) ==
  LET a1 == Bump(a)
      a2 == Bump(a1)
      a3 == Bump(a2)
  IN  IF ~HasToken(a1) THEN AsmRaise(a1, "IndexError")
      ELSE IF ~IsRegister(Tok(a1)) THEN AsmRaise(a1, "SyntaxError")
      ELSE IF ~HasToken(a2) THEN AsmRaise(a2, "IndexError")
      ELSE IF Tok(a2) # <<",">> THEN AsmRaise(a2, "SyntaxError")
      ELSE IF ~HasToken(a3) THEN AsmRaise(a3, "IndexError")
      ELSE IF ~is_hex(Tok(a3)) THEN AsmRaise(a3, "SyntaxError")
      ELSE Emit(a3, build_opcode(<<op1, reg_tk_int(Tok(a1)),
                                   BitAnd(to_hex(Tok(a3)), 255)>>))

assemble_shift(a, op1, op2) ==
  LET a1 == Bump(a)
      a2 == Bump(a1)
      a3 == Bump(a2)
  IN  IF ~HasToken(a1) THEN AsmRaise(a1, "IndexError")
      ELSE IF ~IsRegister(Tok(a1)) THEN AsmRaise(a1, "SyntaxError")
      ELSE IF ~HasToken(a2) THEN AsmRaise(a2, "IndexError")
      ELSE IF Tok(a2) # <<",">> THEN AsmRaise(a2, "SyntaxError")
      ELSE IF ~HasToken(a3) THEN AsmRaise(a3, "IndexError")
      ELSE IF ~is_hex(Tok(a3)) THEN AsmRaise(a3, "SyntaxError")
      ELSE Emit(a3, build_opcode(<<op1, reg_tk_int(Tok(a1)),
                                   to_hex(Tok(a3)), op2>>))

\* the loop of assemble_label over the entries of a known symbol: each
\* goto entry clears the address field of opcodes[value >> 1], and sets it
\* when the overflow test has passed
RECURSIVE Patch(_, _, _)
Patch(a, entries, k) ==
  IF k > Len(entries) \/ a.exc # "" THEN a
  ELSE IF entries[k][1] # "goto" THEN Patch(a, entries, k + 1)
  ELSE
    LET at == (entries[k][2] \div 2) + 1 IN
    IF at > Len(a.opcodes) THEN AsmRaise(a, "IndexError")
    ELSE
      LET a1 == [a EXCEPT !.opcodes[at] = BitAnd(@, 61440)] IN
      IF 2 * Len(a.opcodes) > 4094 THEN AsmRaise(a1, "OverflowError")
      ELSE Patch([a1 EXCEPT !.opcodes[at] =
                    BitOr(@, Word(2 * Len(a.opcodes) + 2))],
                 entries, k + 1)

assemble_label(a) ==
  LET symbol == Tok(a)
      a1 == IF symbol \in DOMAIN a.symbol_table
            THEN Patch(a, a.symbol_table[symbol], 1)
            ELSE [a EXCEPT !.symbol_table =
                    Put(@, symbol,
                        <<<<"label", Word(2 * Len(a.opcodes) + 2)>>>>)]
  IN  IF a1.exc # "" THEN a1 ELSE Bump(a1)

\* the methods assemble_adc .. assemble_xor: the emitter each mnemonic
\* calls and its opcode fields
mnemonics ==
  { [name |-> <<"a", "d", "c">>,           form |-> "rconst", op1 |-> 7,  op2 |-> 0],
    [name |-> <<"a", "d", "d">>,           form |-> "r2r",    op1 |-> 8,  op2 |-> 4],
    [name |-> <<"a", "c", "r">>,           form |-> "rconst", op1 |-> 6,  op2 |-> 0],
    [name |-> <<"a", "n", "d">>,           form |-> "r2r",    op1 |-> 8,  op2 |-> 2],
    [name |-> <<"a", "r">>,                form |-> "r2r",    op1 |-> 8,  op2 |-> 0],
    [name |-> <<"b", "a", "r">>,           form |-> "rconst", op1 |-> 12, op2 |-> 0],
    [name |-> <<"c", "a", "l", "l">>,      form |-> "cg",     op1 |-> 2,  op2 |-> 0],
    [name |-> <<"c", "p", "a", "c">>,      form |-> "const",  op1 |-> 11, op2 |-> 0],
    [name |-> <<"d", "p", "g">>,           form |-> "dp",     op1 |-> 14, op2 |-> 1],
    [name |-> <<"d", "p", "s">>,           form |-> "dp",     op1 |-> 14, op2 |-> 0],
    [name |-> <<"g", "o", "t", "o">>,      form |-> "cg",     op1 |-> 1,  op2 |-> 0],
    [name |-> <<"h", "l", "t">>,           form |-> "word",   op1 |-> 0,  op2 |-> 0],
    [name |-> <<"l", "d">>,                form |-> "mem",    op1 |-> 14, op2 |-> 101],
    [name |-> <<"m", "p", "a", "r">>,      form |-> "mem",    op1 |-> 14, op2 |-> 30],
    [name |-> <<"o", "r">>,                form |-> "r2r",    op1 |-> 8,  op2 |-> 1],
    [name |-> <<"r", "d", "b">>,           form |-> "drw",    op1 |-> 15, op2 |-> 0],
    [name |-> <<"r", "e", "t">>,           form |-> "word",   op1 |-> 0,  op2 |-> 494],
    [name |-> <<"r", "m", "p">>,           form |-> "mem",    op1 |-> 14, op2 |-> 29],
    [name |-> <<"r", "s", "u", "b">>,      form |-> "r2r",    op1 |-> 8,  op2 |-> 7],
    [name |-> <<"s", "h", "l">>,           form |-> "shift",  op1 |-> 8,  op2 |-> 14],
    [name |-> <<"s", "h", "r">>,           form |-> "shift",  op1 |-> 8,  op2 |-> 6],
    [name |-> <<"s", "m", "p">>,           form |-> "const",  op1 |-> 10, op2 |-> 0],
    [name |-> <<"s", "n", "e", "c">>,      form |-> "rconst", op1 |-> 3,  op2 |-> 0],
    [name |-> <<"s", "n", "u", "e", "c">>, form |-> "rconst", op1 |-> 4,  op2 |-> 0],
    [name |-> <<"s", "n", "e">>,           form |-> "r2r",    op1 |-> 5,  op2 |-> 0],
    [name |-> <<"s", "n", "u", "e">>,      form |-> "r2r",    op1 |-> 9,  op2 |-> 0],
    [name |-> <<"s", "p", "l">>,           form |-> "mem",    op1 |-> 14, op2 |-> 85],
    [name |-> <<"s", "u", "b">>,           form |-> "r2r",    op1 |-> 8,  op2 |-> 5],
    [name |-> <<"w", "r", "b">>,           form |-> "drw",    op1 |-> 13, op2 |-> 0],
    [name |-> <<"x", "c", "h">>,           form |-> "r2r",    op1 |-> 8,  op2 |-> 15],
    [name |-> <<"x", "o", "r">>,           form |-> "r2r",    op1 |-> 8,  op2 |-> 3] }

IsMnemonic(token) == \E m \in mnemonics : m.name = token

Mnemonic(token) == CHOOSE m \in mnemonics : m.name = token

\* the method the ladder of assemble calls for a mnemonic
assemble_mnemonic(a, m) ==
  CASE m.form = "rconst" -> assemble_rconst(a, m.op1)
    [] m.form = "r2r"    -> assemble_r2r(a, m.op1, m.op2)
    [] m.form = "cg"     -> assemble_cg(a, m.op1)
    [] m.form = "const"  -> assemble_const(a, m.op1)
    [] m.form = "dp"     -> assemble_dp(a, m.op2)
    [] m.form = "mem"    -> assemble_mem(a, m.op1, m.op2)
    [] m.form = "drw"    -> assemble_drw(a, m.op1)
    [] m.form = "shift"  -> assemble_shift(a, m.op1, m.op2)
    [] m.form = "word"   -> [a EXCEPT !.opcodes = Append(@, m.op2)]

\* one iteration of the while loop of assemble
Iterate(a) ==
  LET a1 == IF IsMnemonic(Tok(a)) THEN assemble_mnemonic(a, Mnemonic(Tok(a)))
            ELSE IF ~(a.token_index + 1 < Len(a.tokens))
                 THEN AsmRaise(a, "IndexError")
            ELSE IF a.tokens[a.token_index + 2] = <<":">> THEN assemble_label(a)
            ELSE AsmRaise(a, "SyntaxError")
  IN  IF a1.exc # "" THEN a1 ELSE Bump(a1)

\* the record of an iteration: its token and where it started
Entry(a) ==
  [token |-> Tok(a), index |-> a.token_index, at |-> Len(a.opcodes)]

\* an iteration, entered in the history when it runs to its end
Logged(a) ==
  LET a1 == Iterate(a) IN
  IF a1.exc # "" THEN a1
  ELSE [a1 EXCEPT !.history = Append(a.history, Entry(a))]

\* at most n iterations of the while loop, which ends with the tokens or
\* with an exception
RECURSIVE Loop(_, _)
Loop(a, n) ==
  IF n = 0 \/ ~HasToken(a) \/ a.exc # "" THEN a
  ELSE IF n = 1 THEN Logged(a)
  ELSE LET half == Loop(a, n \div 2) IN Loop(half, n - (n \div 2))

\* assemble() up to its last statement: the slot for the code length is
\* reserved and the loop runs (every iteration consumes a token)
assemble(a) == Loop([a EXCEPT !.opcodes = Append(@, 0)], Len(a.tokens))

\* ------------------------------------------------- assembler: programs

\* the tokens tokenise gives for the words of the programs below
tk ==
  [ goto_ |-> <<"g", "o", "t", "o">>, call_ |-> <<"c", "a", "l", "l">>,
    hlt   |-> <<"h", "l", "t">>,      acr   |-> <<"a", "c", "r">>,
    shl   |-> <<"s", "h", "l">>,      rdb   |-> <<"r", "d", "b">>,
    r0    |-> <<"r", "0">>,           r1    |-> <<"r", "1">>,
    r2    |-> <<"r", "2">>,           rA    |-> <<"r", "A">>,
    dev0  |-> <<"d", "e", "v", "0">>, devB  |-> <<"d", "e", "v", "B">>,
    comma |-> <<",">>,                colon |-> <<":">>,
    one   |-> <<"1">>,                seven |-> <<"7">>,
    x10   |-> <<"1", "0">>,           x100  |-> <<"1", "0", "0">>,
    xA5   |-> <<"A", "5">>,           x123  |-> <<"1", "2", "3">>,
    end   |-> <<"e", "n", "d">>,      foo   |-> <<"f", "o", "o">>,
    L     |-> <<"L">>,                M     |-> <<"M">> ]

\* source lines as token lists
line ==
  [ goto_L  |-> <<tk.goto_, tk.L>>,
    call_L  |-> <<tk.call_, tk.L>>,
    L       |-> <<tk.L, tk.colon>>,
    goto_M  |-> <<tk.goto_, tk.M>>,
    M       |-> <<tk.M, tk.colon>>,
    hlt     |-> <<tk.hlt>>,
    acr     |-> <<tk.acr, tk.r0, tk.comma, tk.one>> ]

\* the lines of a program one after the other
RECURSIVE Flat(_)
Flat(lines) == IF lines = <<>> THEN <<>> ELSE Head(lines) \o Flat(Tail(lines))

\* S4: goto end / acr r0, 1 / end: / hlt
S4 ==
  << tk.goto_, tk.end, tk.acr, tk.r0, tk.comma, tk.one,
     tk.end, tk.colon, tk.hlt >>

\* n lines hlt
Hlts(n) == [k \in 1..n |-> tk.hlt]

\* one line for a mnemonic, with operands of its form
Sample(m) ==
  CASE m.form = "rconst" -> <<m.name, tk.r1, tk.comma, tk.xA5>>
    [] m.form = "r2r"    -> <<m.name, tk.rA, tk.comma, tk.r2>>
    [] m.form = "cg"     -> <<m.name, tk.L>>
    [] m.form = "const"  -> <<m.name, tk.x123>>
    [] m.form = "dp"     -> <<m.name, tk.devB>>
    [] m.form = "mem"    -> <<m.name, tk.rA>>
    [] m.form = "drw"    -> <<m.name, tk.devB, tk.comma, tk.seven>>
    [] m.form = "shift"  -> <<m.name, tk.r1, tk.comma, tk.seven>>
    [] m.form = "word"   -> <<m.name>>

AsmScenarios ==
  { S4,
    Flat(<<line.goto_L, line.L, line.goto_L>>),
    Flat(<<line.goto_L, line.goto_L, line.hlt, line.L>>),
    Flat(<<line.call_L, line.goto_L, line.L>>),
    Flat(<<line.L, line.hlt, line.L, line.goto_L>>),
    Flat(<<line.goto_L, line.L, line.hlt, line.L>>),
    Flat(<<line.L, line.acr, line.goto_L, line.call_L>>),
    <<tk.acr, tk.one>>,
    <<tk.acr, tk.r0, tk.one>>,
    <<tk.acr, tk.r0, tk.comma, tk.foo>>,
    <<tk.foo>>,
    <<tk.foo, tk.hlt>>,
    <<tk.goto_>>,
    <<tk.shl, tk.r0, tk.comma, tk.x10>>,
    <<tk.rdb, tk.dev0, tk.comma, tk.x100>> }

AsmLines ==
  { line.goto_L, line.call_L, line.L, line.goto_M, line.M, line.hlt,
    line.acr }

AsmPrograms ==
  {Flat(p) : p \in Seqs(AsmLines)} \cup AsmScenarios
    \cup {Sample(m) : m \in mnemonics}

\* programs that reach the end of the 12-bit address space
LongPrograms ==
  { Hlts(2046) \o line.L,
    line.call_L \o Hlts(2045) \o line.L,
    line.goto_L \o Hlts(2046) \o line.L }

\* ------------------------------------------------- assembler: actions

\* no machine has been constructed
NoMachine ==
  /\ memory = <<>>
  /\ registers = <<>>
  /\ stack = <<>>
  /\ code_ptr = PyInt(0)
  /\ memory_ptr = PyInt(0)
  /\ alert = FALSE
  /\ devices = <<>>
  /\ format_code = U16(0)
  /\ device_ptr = U16(0)
  /\ device_memory = <<>>
  /\ mode = "none"
  /\ num_of_cycles = None
  /\ exit = ""
  /\ args = <<>>
  /\ budget = None
  /\ executed = 0
  /\ last = NoLast
  /\ Single

machine ==
  <<fields, mode, num_of_cycles, exit, args, budget, executed, last, other>>

\* Assembler(src_file, out_file) on a file whose text tokenise splits into
\* the tokens of a program
Constructed_Assembler(programs) ==
  /\ NoMachine
  /\ tokens \in programs
  /\ token_index = 0
  /\ symbol_table = <<>>
  /\ opcodes = <<>>
  /\ out_file = <<>>
  /\ phase = "constructed"
  /\ raised = ""
  /\ history = <<>>
  /\ call = [fn |-> "none"]

InitAsm == Constructed_Assembler(AsmPrograms)

InitRom == Constructed_Assembler(AsmPrograms \cup LongPrograms)

\* the fields of the object take the values of the record
StoreAsm(a) ==
  /\ token_index' = a.token_index
  /\ symbol_table' = a.symbol_table
  /\ opcodes' = a.opcodes
  /\ history' = a.history

\* the iteration about to run and the symbol table it starts from
Started(fn) ==
  [fn |-> fn, token |-> Tok(Assembler), index |-> token_index,
   at |-> Len(opcodes), symbol_table |-> symbol_table]

\* the call of assemble(): the slot for the code length is reserved
Assemble ==
  /\ phase = "constructed"
  /\ opcodes' = Append(opcodes, 0)
  /\ phase' = "assembling"
  /\ call' = [fn |-> "assemble"]
  /\ UNCHANGED <<machine, tokens, token_index, symbol_table, out_file,
                 raised, history>>

\* one iteration of the loop that runs to its end
Statement ==
  /\ phase = "assembling"
  /\ token_index < Len(tokens)
  /\ LET a == Logged(Assembler) IN
     /\ a.exc = ""
     /\ StoreAsm(a)
  /\ call' = Started("statement")
  /\ UNCHANGED <<machine, tokens, out_file, phase, raised>>

\* one iteration that raises: the exception leaves assemble
AsmFault ==
  /\ phase = "assembling"
  /\ token_index < Len(tokens)
  /\ LET a == Logged(Assembler) IN
     /\ a.exc # ""
     /\ StoreAsm(a)
     /\ raised' = a.exc
  /\ phase' = "failed"
  /\ call' = Started("fault")
  /\ UNCHANGED <<machine, tokens, out_file>>

\* the loop condition is false: the code length goes to the reserved slot
\* and assemble returns
Finish ==
  /\ phase = "assembling"
  /\ ~(token_index < Len(tokens))
  /\ opcodes' = [opcodes EXCEPT ![1] = 2 * Len(opcodes) - 2]
  /\ phase' = "assembled"
  /\ call' = [fn |-> "finish"]
  /\ UNCHANGED <<machine, tokens, token_index, symbol_table, out_file,
                 raised, history>>

\* write_out(): the two bytes of every element of opcodes, high byte first
write_out ==
  /\ phase = "assembled"
  /\ out_file' = Bytes(opcodes)
  /\ phase' = "written"
  /\ call' = [fn |-> "write_out"]
  /\ UNCHANGED <<machine, tokens, token_index, symbol_table, opcodes,
                 raised, history>>

NextAsm == Assemble \/ Statement \/ AsmFault \/ Finish \/ write_out

SpecAsm == InitAsm /\ [][NextAsm]_vars

\* a call of assemble() that returns
AssembleReturns ==
  /\ phase = "constructed"
  /\ LET a == assemble(Assembler) IN
     /\ a.exc = ""
     /\ token_index' = a.token_index
     /\ symbol_table' = a.symbol_table
     /\ opcodes' = [a.opcodes EXCEPT ![1] = 2 * Len(a.opcodes) - 2]
     /\ history' = a.history
  /\ phase' = "assembled"
  /\ call' = [fn |-> "assemble"]
  /\ UNCHANGED <<machine, tokens, out_file, raised>>

\* a call of assemble() that raises
AssembleRaises ==
  /\ phase = "constructed"
  /\ LET a == assemble(Assembler) IN
     /\ a.exc # ""
     /\ StoreAsm(a)
     /\ raised' = a.exc
  /\ phase' = "failed"
  /\ call' = [fn |-> "assemble"]
  /\ UNCHANGED <<machine, tokens, out_file>>

\* the main program: assemble() and then write_out()
NextRom == AssembleReturns \/ AssembleRaises \/ write_out

SpecRom == InitRom /\ [][NextRom]_vars

\* --------------------------------------------- MemoryDevice on its own

MaxBytes == 2

\* the cursors given to set_ptr: the ends of the buffer, as the NumPy types
\* the machine passes from register F
Cursors == {U16(0), U16(65534), U16(65535), U64(65535)}

\* the byte lists given to write
ByteLists ==
  UNION {{[k \in 1..n |-> k], [k \in 1..n |-> 160 + k]} : n \in 0..MaxBytes}

\* MemoryDevice(): the cursor at 0 and a buffer of zeros
InitMemoryDevice == NoMachine /\ NoTools

\* the call before this one, without the calls before it
Before ==
  IF call.fn = "write"
  THEN [fn |-> "write", bytes |-> call.bytes, exc |-> call.exc]
  ELSE [fn |-> call.fn]

memoryDevice == <<memory, registers, stack, code_ptr, memory_ptr, alert,
                  devices, format_code, mode, num_of_cycles, exit, args,
                  budget, executed, last, tokens, token_index, symbol_table,
                  opcodes, out_file, phase, raised, history, other>>

set_ptr ==
  /\ \E ptr_value \in Cursors :
       /\ device_ptr' = ptr_value
       /\ call' = [fn |-> "set_ptr", ptr_value |-> ptr_value]
  /\ UNCHANGED <<memoryDevice, device_memory>>

write ==
  /\ \E bytes \in ByteLists :
       LET vm == MemoryDevice_write(VM, bytes) IN
       /\ device_memory' = vm.device_memory
       /\ call' = [fn |-> "write", bytes |-> bytes, exc |-> vm.exc,
                   memory |-> device_memory]
  /\ UNCHANGED <<memoryDevice, device_ptr>>

read ==
  /\ \E nbytes \in 0..MaxBytes :
       call' = [fn |-> "read", nbytes |-> nbytes,
                result |-> MemoryDevice_read(VM, nbytes), before |-> Before]
  /\ UNCHANGED <<memoryDevice, device_ptr, device_memory>>

get_ptr ==
  /\ call' = [fn |-> "get_ptr", result |-> device_ptr, before |-> Before]
  /\ UNCHANGED <<memoryDevice, device_ptr, device_memory>>

NextMemoryDevice == set_ptr \/ write \/ read \/ get_ptr

SpecMemoryDevice == InitMemoryDevice /\ [][NextMemoryDevice]_vars

\* ------------------------------------ the module-level functions, called

\* the values given to the fields of build_opcode: each bit of a field on
\* its own, all bits, and the first value that is out of range
NibbleValues == {0, 1, 2, 4, 8, 15, 16}

ByteValues == {0, 1, 16, 128, 170, 255, 256}

AddressValues == {0, 1, 255, 256, 2748, 4095, 4096}

OpcodeInputs ==
  {<<a, b, c, d>> : a \in NibbleValues, b \in NibbleValues,
                    c \in NibbleValues, d \in NibbleValues}
    \cup {<<a, b, nn>> : a \in NibbleValues, b \in NibbleValues,
                         nn \in ByteValues}
    \cup {<<a, nnn>> : a \in NibbleValues, nnn \in AddressValues}
    \cup {<<1>>, <<1, 2, 3, 4, 5>>}

\* the tokens given to reg_tk_int and dev_tk_int: the mnemonics and tokens
\* that are none
TokenInputs ==
  {register_mnemonics[i] : i \in 1..16}
    \cup {device_mnemonics[i] : i \in 1..16}
    \cup {<<"r", "a">>, <<"r", "1", "0">>, <<"r">>, <<"R", "1">>,
          <<"d", "e", "v", "1", "0">>, <<"d", "e", "v">>, <<"1">>}

\* a function is about to be called on an argument
InitUtil ==
  /\ NoMachine
  /\ NoAssembler
  /\ call \in {[fn |-> "build_opcode", arg |-> ops, state |-> "called"] :
                 ops \in OpcodeInputs}
         \cup {[fn |-> fn, arg |-> token, state |-> "called"] :
                 fn \in {"reg_tk_int", "dev_tk_int"}, token \in TokenInputs}

\* the call returns, or its assert fails
Returned(fn, result) ==
  /\ call' = [fn |-> fn, arg |-> call.arg, state |-> "returned",
              result |-> result]
  /\ UNCHANGED <<machine, tokens, token_index, symbol_table, opcodes,
                 out_file, phase, raised, history>>

Call_build_opcode ==
  /\ call.fn = "build_opcode"
  /\ call.state = "called"
  /\ Returned("build_opcode", build_opcode(call.arg))

Call_reg_tk_int ==
  /\ call.fn = "reg_tk_int"
  /\ call.state = "called"
  /\ Returned("reg_tk_int", reg_tk_int(call.arg))

Call_dev_tk_int ==
  /\ call.fn = "dev_tk_int"
  /\ call.state = "called"
  /\ Returned("dev_tk_int", dev_tk_int(call.arg))

NextUtil == Call_build_opcode \/ Call_reg_tk_int \/ Call_dev_tk_int

SpecUtil == InitUtil /\ [][NextUtil]_vars

\* ------------------------------------------------- two Chip64 objects

MaxCalls == 3

\* programs of the two machines: acr rF, 01; dps dev0; dpg dev0; dps dev1
PairOps == {28417, 57344, 57345, 57600}

PairImages == {Bytes(p) : p \in Seqs(PairOps)}

SecondImages == {Bytes(<<57345>>), Bytes(<<28421, 57344, 57345>>)}

\* a second object b = Chip64(code): its devices are the list
\* defaultDevices of the module, the one the first object holds, with the
\* one ConsoleIO object in slot 0; calls counts the calls made on b
Second(code) ==
  [memory |-> Load(code), registers |-> [r \in 0..15 |-> U16(0)],
   stack |-> <<>>, code_ptr |-> PyInt(0), memory_ptr |-> PyInt(0),
   alert |-> FALSE, devices |-> defaultDevices, calls |-> 0]

InitPair ==
  /\ Constructed(PairImages, defaultDevices)
  /\ NoTools
  /\ other \in {Second(code) : code \in SecondImages}

\* the second object with the devices of its table
SecondVM ==
  [memory |-> other.memory, registers |-> other.registers,
   stack |-> other.stack, code_ptr |-> other.code_ptr,
   memory_ptr |-> other.memory_ptr, alert |-> other.alert,
   devices |-> other.devices, format_code |-> format_code,
   device_ptr |-> device_ptr, device_memory |-> device_memory, exc |-> ""]

\* the fields of the second object and of its devices take the values of
\* the record
StoreSecond(vm) ==
  /\ other' = [memory |-> vm.memory, registers |-> vm.registers,
               stack |-> vm.stack, code_ptr |-> vm.code_ptr,
               memory_ptr |-> vm.memory_ptr, alert |-> vm.alert,
               devices |-> vm.devices, calls |-> other.calls + 1]
  /\ format_code' = vm.format_code
  /\ device_ptr' = vm.device_ptr
  /\ device_memory' = vm.device_memory

\* the fields of the first object, which a call on the second one does
\* not name
first == <<memory, registers, stack, code_ptr, memory_ptr, alert, devices,
           mode, num_of_cycles, exit, args, budget, executed, last>>

\* b.execute(1) while the first object is not inside execute: one
\* iteration, which returns on opcode 0x0000 and may raise
Second_execute ==
  /\ mode \in {"idle", "done"}
  /\ other.calls < MaxCalls
  /\ IF ~InMemory2(other.code_ptr) \/ Fetch(SecondVM) = 0
     THEN StoreSecond(SecondVM)
     ELSE \E ch \in Choices(Fetch(SecondVM)) :
            StoreSecond(Iteration(SecondVM, Fetch(SecondVM), ch))
  /\ UNCHANGED <<first, tools>>

\* b.reset()
Second_reset ==
  /\ mode \in {"idle", "done"}
  /\ other.calls < MaxCalls
  /\ other' = [Second(<<>>) EXCEPT !.calls = other.calls + 1]
  /\ UNCHANGED <<first, format_code, device_ptr, device_memory, tools>>

NextPair ==
  \/ Execute \/ Return \/ Halt \/ Step \/ Fault \/ Reset
  \/ Second_execute \/ Second_reset

SpecPair == InitPair /\ [][NextPair]_vars

\* ------------------------------------------------- tokenise

MaxSourceLen == 4

\* characters of a source text: a letter, a digit, the underscore, the
\* space, the newline, the two punctuation tokens, the comment sign and a
\* character of none of these kinds
Alphabet == {"a", "1", "_", " ", "\n", ",", ":", "#", "-"}

Sources == UNION {[1..n -> Alphabet] : n \in 0..MaxSourceLen}

\* char.isalnum() on the characters of Alphabet
isalnum(char) ==
  Find(char, Digits) > 0 \/ Find(char, Lower) > 0 \/ Find(char, Capital) > 0

\* char.isspace() on the characters of Alphabet
isspace(char) == char \in {" ", "\n"}

\* the loop of tokenise from character k on, and the statements after it
RECURSIVE Scan(_, _, _, _, _)
Scan(source_code, k, toks, str_buffer, comment_flag) ==
  IF k > Len(source_code)
  THEN IF str_buffer # <<>> THEN Append(toks, str_buffer) ELSE toks
  ELSE
    LET char == source_code[k]
        flag == char = "#" \/ comment_flag
    IN
    IF char # "#" /\ comment_flag /\ char # "\n"
    THEN Scan(source_code, k + 1, toks, str_buffer, comment_flag)
    ELSE IF char # "#" /\ comment_flag /\ char = "\n"
    THEN Scan(source_code, k + 1, toks, str_buffer, FALSE)
    ELSE IF isalnum(char) \/ char = "_"
    THEN Scan(source_code, k + 1, toks, Append(str_buffer, char), flag)
    ELSE IF isspace(char) \/ char \in {",", ":"}
    THEN LET flushed == IF str_buffer # <<>> THEN Append(toks, str_buffer)
                        ELSE toks
         IN  Scan(source_code, k + 1,
                  IF char \in {",", ":"} THEN Append(flushed, <<char>>)
                  ELSE flushed,
                  <<>>, flag)
    ELSE Scan(source_code, k + 1, toks, str_buffer, flag)

tokenise(source_code) == Scan(source_code, 1, <<>>, <<>>, FALSE)

InitTokenise ==
  /\ NoMachine
  /\ NoAssembler
  /\ call \in {[fn |-> "tokenise", arg |-> s, state |-> "called"] :
                 s \in Sources}

Call_tokenise ==
  /\ call.fn = "tokenise"
  /\ call.state = "called"
  /\ Returned("tokenise", tokenise(call.arg))

NextTokenise == Call_tokenise

SpecTokenise == InitTokenise /\ [][NextTokenise]_vars

\* -------------------------------------------------------------- claims

Stepped == last.kind = "step"

LastX == get_nibble(last.opcode, 2)

LastY == get_nibble(last.opcode, 1)

LastNN == low_byte(last.opcode)

LastNNN == BitAnd(last.opcode, 4095)

LastIs(nib3) == Stepped /\ get_nibble(last.opcode, 3) = nib3

LastIs8(nib0) == LastIs(8) /\ get_nibble(last.opcode, 0) = nib0

\* C1: after any instruction every register holds a value v with
\* 0 <= v < 2^16.
C1_RegistersAreWords == \A r \in 0..15 : IsWord(registers[r])

\* C2: after any instruction the program counter satisfies
\* 0 <= pc <= 4094 (the advance is modulo 4096), so the next fetch is
\* inside memory.
C2_PcInRange == IsWord(code_ptr) /\ Val(code_ptr) <= MemSize - 2

\* the word stored at byte address a
WordAt(a) == concat(memory[a], memory[a + 1])

\* a RET that ran: the stack is the old one without its top and pc is the
\* popped address plus 2
RetResumes ==
  (Stepped /\ last.opcode = RET) =>
     /\ last.stack # <<>>
     /\ stack = SubSeq(last.stack, 1, Len(last.stack) - 1)
     /\ IsWord(code_ptr)
     /\ Val(code_ptr) = Val(last.stack[Len(last.stack)]) + 2

S2Done == memory = Load(S2) /\ exit = "hlt"

S2Result ==
  S2Done => /\ stack = <<>>
            /\ Val(code_ptr) = 2
            /\ registers[0].v = <<66, 0, 0, 0>>

\* C3 as stated: CALL at address a pushes a + 2, the address of the
\* instruction following it; a RET resumes at the popped address plus the
\* advance, with the stack as before the CALL; S2 ends with an empty stack
\* and pc at the HLT at address 2.
C3_CallPushesNext ==
  /\ LastIs(2) =>
       /\ stack = Append(last.stack, stack[Len(stack)])
       /\ Val(stack[Len(stack)]) = Val(last.code_ptr) + 2
       /\ Val(code_ptr) = LastNNN
  /\ RetResumes
  /\ S2Result

\* C3 amended: CALL at address a pushes a itself and jumps to NNN; every
\* address on the stack is the address of a CALL instruction; RET pops the
\* top address and the advance adds 2, so the instruction fetched after a
\* matching RET is the one at a + 2 and the stack is as before the CALL;
\* S2 ends with r0 = 0x42, an empty stack and pc at the HLT at address 2.
C3_CallPushesOwnAddress ==
  /\ LastIs(2) =>
       /\ stack = Append(last.stack, last.code_ptr)
       /\ Val(code_ptr) = LastNNN
  /\ \A k \in 1..Len(stack) :
       /\ InMemory2(stack[k])
       /\ get_nibble(WordAt(Val(stack[k])), 3) = 2
  /\ RetResumes
  /\ S2Result

\* a RET has returned from a nested call to the instruction after its CALL
C3_Witness ==
  /\ Stepped
  /\ last.opcode = RET
  /\ Len(last.stack) = 2
  /\ Val(code_ptr) = Val(last.stack[2]) + 2
  /\ get_nibble(WordAt(Val(code_ptr) - 2), 3) = 2

\* C4 (state part): a call with num_of_cycles = n has completed at most n
\* iterations, and n minus the remaining count; it returns through the loop
\* condition only with the count at zero, never when called with None; it
\* returns through HLT only with opcode 0x0000 at pc and pc, registers,
\* stack and i as they were before the HLT was decoded.
C4_Budget ==
  /\ (mode # "idle" /\ budget # None) =>
        /\ executed <= budget
        /\ num_of_cycles = budget - executed
  /\ exit = "cycles" => (budget # None /\ num_of_cycles = 0)
  /\ exit = "hlt" =>
        /\ last.kind = "halt"
        /\ InMemory2(code_ptr)
        /\ WordAt(Val(code_ptr)) = 0
        /\ code_ptr = last.code_ptr
        /\ registers = last.registers
        /\ stack = last.stack
        /\ memory_ptr = last.memory_ptr

\* C4 (step part): the step on which execute returns through HLT changes
\* neither memory nor any other field, and while the loop condition holds
\* and the opcode at pc is not HLT execute does not return normally.
C4_HaltStep ==
  /\ (exit # "hlt" /\ exit' = "hlt") =>
        UNCHANGED <<fields, num_of_cycles>>
  /\ (mode = "running" /\ exit' = "cycles") => num_of_cycles = 0
  /\ (mode = "running" /\ exit' = "hlt") => WordAt(Val(code_ptr)) = 0

\* C4: execute(cycles) runs until cycles reaches zero or a HLT is decoded:
\* at most n instructions for cycles = n, until HLT for cycles = None, and
\* decoding HLT changes no pc, register, RAM, stack or i.
C4_Execute == []C4_Budget /\ [][C4_HaltStep]_vars

\* a call with a budget of 1 has returned with the count spent and an
\* instruction other than HLT next
C4_Witness ==
  /\ exit = "cycles"
  /\ budget = 1
  /\ executed = 1
  /\ InMemory2(code_ptr)
  /\ WordAt(Val(code_ptr)) # 0

Flag(b) == <<IF b THEN 1 ELSE 0, 0, 0, 0>>

OldVx == last.registers[LastX]

OldVy == last.registers[LastY]

\* C5: ADD (8XY4): with t = Vx + Vy on the values before the instruction,
\* afterwards Vx = t mod 2^16 and V_F = 1 if t >= 2^16 else 0, X = Y
\* included (written for X other than F, where Vx and V_F are two
\* registers, and for operands below 2^16).
C5_Add ==
  (LastIs8(4) /\ LastX # 15 /\ IsWord(OldVx) /\ IsWord(OldVy)) =>
     LET t == Val(OldVx) + Val(OldVy)
     IN  /\ registers[LastX].v = <<t % W, 0, 0, 0>>
         /\ registers[15].v = Flag(t >= W)

\* C6: SUB (8XY5): afterwards V_F = 1 if Vx >= Vy else 0 and
\* Vx = (Vx - Vy) mod 2^16, both on the values before the instruction,
\* also when Y = F (written for X other than F and operands below 2^16).
C6_Sub ==
  (LastIs8(5) /\ LastX # 15 /\ IsWord(OldVx) /\ IsWord(OldVy)) =>
     /\ registers[15].v = Flag(Val(OldVx) >= Val(OldVy))
     /\ registers[LastX].v = <<(Val(OldVx) - Val(OldVy)) % W, 0, 0, 0>>

\* C7: after any ADD (8XY4) or SUB (8XY5), for every X and Y, X = F
\* included, reg[F] is 0 or 1.
C7_FlagIsBit ==
  (LastIs8(4) \/ LastIs8(5)) => registers[15].v \in {Flag(FALSE), Flag(TRUE)}

\* the condition of the skip instruction last executed, on the registers
\* it started from
SkipCondition ==
  CASE LastIs(3) -> OldVx.v = <<LastNN, 0, 0, 0>>
    [] LastIs(4) -> OldVx.v # <<LastNN, 0, 0, 0>>
    [] LastIs(5) -> OldVx.v = OldVy.v
    [] LastIs(9) -> OldVx.v # OldVy.v
    [] OTHER     -> FALSE

S5Done == memory = Load(S5) /\ exit = "hlt"

ShrResult ==
  IF LastY = 0
  THEN /\ registers[15].v = Zero4
       /\ registers[LastX].v = OldVx.v
  ELSE /\ registers[15].v = <<BitOf(OldVx, LastY - 1), 0, 0, 0>>
       /\ \A k \in 0..63 :
            BitOf(registers[LastX], k) =
              IF k + LastY <= 63 THEN BitOf(OldVx, k + LastY) ELSE 0

C10_Shl ==
  (LastIs8(14) /\ LastX # 15 /\ IsWord(OldVx)) =>
     IF LastY = 0
     THEN /\ registers[15].v = Zero4
          /\ registers[LastX].v = OldVx.v
     ELSE /\ registers[15].v = <<BitOf(OldVx, 16 - LastY), 0, 0, 0>>
          /\ registers[LastX].v = <<(Val(OldVx) * Pow2(LastY)) % W, 0, 0, 0>>

\* C11: RSUB (8XY7): with the register values taken before the
\* instruction, afterwards Vy = (Vy - Vx) mod 2^16 and V_F = 1 iff
\* Vy >= Vx, and Vx is unchanged, for X # Y and X # F (written for Y other
\* than F, where Vy and V_F are two registers, and operands below 2^16).
C11_Rsub ==
  (LastIs8(7) /\ LastX # LastY /\ LastX # 15 /\ LastY # 15
     /\ IsWord(OldVx) /\ IsWord(OldVy)) =>
     /\ registers[LastY].v = <<(Val(OldVy) - Val(OldVx)) % W, 0, 0, 0>>
     /\ registers[15].v = Flag(Val(OldVy) >= Val(OldVx))
     /\ registers[LastX].v = OldVx.v

\* every register other than Vx holds the value it held before the last
\* instruction
OthersUnchanged ==
  \A r \in 0..15 : r # LastX => registers[r].v = last.registers[r].v

\* pc is two past the address of the last instruction
Advanced ==
  /\ IsWord(code_ptr)
  /\ IsWord(last.code_ptr)
  /\ Val(code_ptr) = Val(last.code_ptr) + 2

\* C12: ACR (6XNN) sets Vx to the full byte NN for every X and NN, leaves
\* every other register unchanged and advances pc by 2; ADC (7XNN) adds the
\* full byte NN to Vx modulo 2^16 and writes no other register, V_F
\* included (written for an old Vx below 2^16).
C12_AcrAdc ==
  /\ LastIs(6) =>
       /\ registers[LastX].v = <<LastNN, 0, 0, 0>>
       /\ OthersUnchanged
       /\ Advanced
  /\ (LastIs(7) /\ IsWord(OldVx)) =>
       /\ registers[LastX].v = <<(Val(OldVx) + LastNN) % W, 0, 0, 0>>
       /\ OthersUnchanged
       /\ Advanced

\* the rows of the instruction table
InTable(opcode) ==
  LET nib3 == get_nibble(opcode, 3) IN
  CASE nib3 = 0  -> opcode \in {0, RET}
    [] nib3 = 8  -> get_nibble(opcode, 0) \in (0..7) \cup {14}
    [] nib3 = 14 -> low_byte(opcode) \in {0, 1, 30, 85, 101}
    [] OTHER     -> TRUE

\* C13: a word that matches no row of the instruction table sets alert,
\* advances pc by 2, changes no other state and does not raise; an opcode
\* of the table leaves alert as it was.
C13_UnknownOpcode ==
  /\ (last.kind \in {"step", "fault"} /\ ~InTable(last.opcode)) =>
       /\ Stepped
       /\ alert
       /\ Advanced
       /\ registers = last.registers
       /\ stack = last.stack
       /\ memory_ptr = last.memory_ptr
       /\ devices = last.devices
       /\ format_code = last.format_code
       /\ device_ptr = last.device_ptr
       /\ device_memory = last.device_memory
  /\ (Stepped /\ InTable(last.opcode)) => alert = last.alert

\* the last iteration, completed or not, decoded EXnn with this low byte
LastIsE(lb) ==
  /\ last.kind \in {"step", "fault"}
  /\ get_nibble(last.opcode, 3) = 14
  /\ low_byte(last.opcode) = lb

\* C14: SPL (EX55) stores Vx big-endian at ram[i], ram[i+1] and leaves i
\* and every register unchanged; LDR (EX65) loads the big-endian word at
\* ram[i], ram[i+1] into Vx (so SPL X then LDR Y with the same i gives
\* Vy = Vx), for every 16-bit Vx and every i with i + 2 <= 4096.
C14_SplLdr ==
  /\ (LastIsE(85) /\ InMemory2(last.memory_ptr) /\ IsWord(OldVx)) =>
       /\ Stepped
       /\ memory[Val(last.memory_ptr)] = high_byte(Val(OldVx))
       /\ memory[Val(last.memory_ptr) + 1] = low_byte(Val(OldVx))
       /\ memory_ptr = last.memory_ptr
       /\ registers = last.registers
  /\ (LastIsE(101) /\ InMemory2(last.memory_ptr)) =>
       /\ Stepped
       /\ registers[LastX].v = <<WordAt(Val(last.memory_ptr)), 0, 0, 0>>
       /\ OthersUnchanged
       /\ memory_ptr = last.memory_ptr

S6Done == memory = Load(S6) /\ exit = "hlt"

\* C15: RDB (DXNN) stores the NN bytes read from device[X] into
\* ram[i..i+NN): afterwards ram[i+k] is the k-th byte the device returned
\* (for a MemoryDevice the cell at its cursor plus k); in S6 the two bytes
\* read back at i = 0x10 equal the two bytes written from i = 0.
C15_Rdb ==
  /\ (LastIs(13) /\ last.devices[LastX] = "MemoryDevice"
        /\ IsWord(last.memory_ptr) /\ IsWord(last.device_ptr)
        /\ Val(last.memory_ptr) + LastNN <= MemSize
        /\ Val(last.device_ptr) + LastNN <= W) =>
       \A k \in 0..(LastNN - 1) :
         memory[Val(last.memory_ptr) + k] =
           DeviceCell(VM, Val(last.device_ptr) + k)
  /\ S6Done => /\ memory[16] = memory[0]
               /\ memory[17] = memory[1]

\* the number of bytes the last instruction accesses at i
AccessLen ==
  CASE LastIsE(85) \/ LastIsE(101) -> 2
    [] get_nibble(last.opcode, 3) \in {13, 15} -> LastNN
    [] OTHER -> 0

\* C16: SPL and LDR (n = 2), RDB and WRB (n = NN) with i + n > 4096 fail
\* and leave the RAM unchanged, for every i reachable through SMP and MPAR.
C16_OutOfRange ==
  (last.kind \in {"step", "fault"} /\ AccessLen > 0
     /\ (~IsWord(last.memory_ptr)
           \/ Val(last.memory_ptr) + AccessLen > MemSize)) =>
     /\ last.kind = "fault"
     /\ mode = "done"

\* C17 (state part): a RET decoded with an empty stack ended execute with
\* the exception of the empty pop, and pc, registers, i and the stack are
\* as they were before it.
C17_Underflow ==
  (last.kind \in {"step", "fault"} /\ last.opcode = RET
     /\ last.stack = <<>>) =>
     /\ last.kind = "fault"
     /\ mode = "done"
     /\ exit = "IndexError"
     /\ code_ptr = last.code_ptr
     /\ registers = last.registers
     /\ memory_ptr = last.memory_ptr
     /\ stack = <<>>

\* C17 (step part): the step of a RET with an empty stack changes no field
\* of the machine, RAM included, and ends the call.
C17_FailedStep ==
  (mode = "running" /\ LoopCondition /\ InMemory2(code_ptr)
     /\ WordAt(Val(code_ptr)) = RET /\ stack = <<>>) =>
     /\ UNCHANGED fields
     /\ mode' = "done"

\* C17: RET (01EE) with an empty stack fails with an error that aborts
\* execute and surfaces to the caller; pc, registers, RAM and i are
\* unchanged by the failed instruction.
C17_RetEmptyStack == []C17_Underflow /\ [][C17_FailedStep]_vars

\* a RET found the stack empty after other instructions had run
C17_Witness ==
  /\ last.kind = "fault"
  /\ last.opcode = RET
  /\ last.stack = <<>>
  /\ exit = "IndexError"
  /\ executed > 0
  /\ Val(code_ptr) > 0

\* registers, pc and i are 0, the stack is empty and alert is false
Cleared ==
  /\ \A r \in 0..15 : registers[r].v = Zero4
  /\ code_ptr.v = Zero4
  /\ memory_ptr.v = Zero4
  /\ stack = <<>>
  /\ ~alert

\* C18: constructing a VM with an image of length len copies it into
\* ram[0..len) and leaves ram[len..4096) zero, with registers, pc and i all
\* 0, the stack empty and alert false; with len > 4096 the construction
\* fails and no VM is produced.
C18_Construction ==
  (last.kind = "none" /\ mode \in {"idle", "failed"}) =>
    IF Len(args.code) > MemSize
    THEN mode = "failed" /\ exit # ""
    ELSE /\ mode = "idle"
         /\ \A a \in 0..(MemSize - 1) :
              memory[a] = IF a < Len(args.code) THEN args.code[a + 1] ELSE 0
         /\ Cleared

\* a construction with an image of 4097 bytes has failed at the last byte
C18_Witness ==
  /\ last.kind = "none"
  /\ Len(args.code) = MemSize + 1
  /\ mode = "failed"
  /\ exit = "IndexError"
  /\ memory[MemSize - 1] = args.code[MemSize]

\* C19: after any sequence of executed instructions followed by reset(),
\* registers are all 0, pc = 0, i = 0, the stack is empty, alert is false,
\* and the RAM and the device table are those the VM was constructed with.
C19_Reset ==
  last.kind = "reset" =>
    /\ Cleared
    /\ \A a \in 0..(MemSize - 1) :
         memory[a] = IF a < Len(args.code) THEN args.code[a + 1] ELSE 0
    /\ devices = args.devices

\* C20: S1: the program of c_mul.py started with r0 = 0x000D and
\* r1 = 0x0011 and run without a cycle count ends at HLT, after 64 loop
\* iterations, with r2 = 0x00DD and r3 = 0x0040.
C20_Multiply ==
  (args.code = Bytes(c_mul) /\ memory = Load(Bytes(c_mul))
     /\ budget = None /\ mode = "done") =>
     /\ exit = "hlt"
     /\ registers[2].v = <<221, 0, 0, 0>>
     /\ registers[3].v = <<64, 0, 0, 0>>

\* ---------------------------------------------------- assembler claims

Assembled == phase \in {"assembled", "written"}

\* a completed iteration that assembled a goto or a call
IsRef(h) == IsMnemonic(h.token) /\ Mnemonic(h.token).form = "cg"

\* the label a goto or call names
RefSymbol(h) == tokens[h.index + 2]

\* a completed iteration on a token that is no mnemonic: a label definition
IsDef(h) == ~IsMnemonic(h.token)

Refs == {i \in DOMAIN history : IsRef(history[i])}

\* the definitions of a symbol among the completed iterations
Defs(symbol) ==
  {j \in DOMAIN history : IsDef(history[j]) /\ history[j].token = symbol}

\* the word a completed iteration appended
WordOf(h) == opcodes[h.at + 1]

\* the byte address of the instruction emitted after a definition: twice
\* its index among the words of the ROM, or among the instructions when
\* the first word is not counted
ByteOffsets(h) == {2 * h.at, 2 * (h.at - 1)}

\* C21: when assembly has completed, every goto or call that names a
\* defined label, before or after the definition, has the opcode 1 or 2 in
\* its top nibble and the byte offset of the label in its low 12 bits.
C21_Jumps ==
  Assembled =>
    \A i \in Refs :
      LET h == history[i] IN
      Defs(RefSymbol(h)) # {} =>
        /\ get_nibble(WordOf(h), 3) = Mnemonic(h.token).op1
        /\ \E j \in Defs(RefSymbol(h)) :
             BitAnd(WordOf(h), 4095) \in ByteOffsets(history[j])

Instructions == {i \in DOMAIN history : IsMnemonic(history[i].token)}

\* C22: the ROM has no header: assemble and write_out produce exactly one
\* word per source instruction and nothing else, and the words of S4 are
\* 0x1006, 0x6001, 0x0000.
C22_NoHeader ==
  /\ Assembled => Len(opcodes) = Cardinality(Instructions)
  /\ (Assembled /\ tokens = S4) => opcodes = <<4102, 24577, 0>>
  /\ phase = "written" => out_file = Bytes(opcodes)

\* C23: assemble never completes while a goto or a call names a label that
\* no line defines.
C23_Unresolved ==
  Assembled => \A i \in Refs : Defs(RefSymbol(history[i])) # {}

\* the label entries of a symbol
LabelEntries(table, symbol) ==
  {k \in DOMAIN table[symbol] : table[symbol][k][1] = "label"}

\* C24: no label address above 0xFFE is recorded in the symbol table or
\* written into an opcode, and no definition of such a label completes,
\* with or without pending references.
C24_Overflow ==
  /\ \A s \in DOMAIN symbol_table :
       \A k \in LabelEntries(symbol_table, s) :
         symbol_table[s][k][2] <= 4094
  /\ \A j \in DOMAIN history :
       IsDef(history[j]) => 2 * (history[j].at - 1) <= 4094
  /\ \A i \in Refs :
       get_nibble(WordOf(history[i]), 3) = Mnemonic(history[i].token).op1

\* the iteration just completed defined a label
DefinedNow == call.fn = "statement" /\ ~IsMnemonic(call.token)

\* the iteration just completed assembled a goto or call to a label that
\* an earlier line defined
ReferredNow ==
  /\ call.fn = "statement"
  /\ IsMnemonic(call.token)
  /\ Mnemonic(call.token).form = "cg"
  /\ Defs(tokens[call.index + 2]) # {}

\* C25: after a label definition the symbol table holds exactly one label
\* entry for it, whether or not it had pending references; a later goto or
\* call to it adds no pending entry and carries the address of that entry.
C25_LabelEntry ==
  /\ DefinedNow =>
       Cardinality(LabelEntries(symbol_table, call.token)) = 1
  /\ ReferredNow =>
       LET symbol == tokens[call.index + 2] IN
       /\ symbol_table[symbol] = call.symbol_table[symbol]
       /\ \E k \in LabelEntries(symbol_table, symbol) :
            BitAnd(opcodes[call.at + 1], 4095) = symbol_table[symbol][k][2]

\* the mnemonic of the branch that Chip64.execute takes for an opcode, and
\* the empty string when it takes none
Decoded(opcode) ==
  LET nib3 == get_nibble(opcode, 3)
      nib0 == get_nibble(opcode, 0)
      lb   == low_byte(opcode)
  IN  CASE opcode = 0   -> <<"h", "l", "t">>
        [] opcode = RET -> <<"r", "e", "t">>
        [] nib3 = 1  -> <<"g", "o", "t", "o">>
        [] nib3 = 2  -> <<"c", "a", "l", "l">>
        [] nib3 = 3  -> <<"s", "n", "e", "c">>
        [] nib3 = 4  -> <<"s", "n", "u", "e", "c">>
        [] nib3 = 5  -> <<"s", "n", "e">>
        [] nib3 = 6  -> <<"a", "c", "r">>
        [] nib3 = 7  -> <<"a", "d", "c">>
        [] nib3 = 8 /\ nib0 = 0  -> <<"a", "r">>
        [] nib3 = 8 /\ nib0 = 1  -> <<"o", "r">>
        [] nib3 = 8 /\ nib0 = 2  -> <<"a", "n", "d">>
        [] nib3 = 8 /\ nib0 = 3  -> <<"x", "o", "r">>
        [] nib3 = 8 /\ nib0 = 4  -> <<"a", "d", "d">>
        [] nib3 = 8 /\ nib0 = 5  -> <<"s", "u", "b">>
        [] nib3 = 8 /\ nib0 = 6  -> <<"s", "h", "r">>
        [] nib3 = 8 /\ nib0 = 7  -> <<"r", "s", "u", "b">>
        [] nib3 = 8 /\ nib0 = 14 -> <<"s", "h", "l">>
        [] nib3 = 9  -> <<"s", "n", "u", "e">>
        [] nib3 = 10 -> <<"s", "m", "p">>
        [] nib3 = 11 -> <<"c", "p", "a", "c">>
        [] nib3 = 12 -> <<"b", "a", "r">>
        [] nib3 = 13 -> <<"r", "d", "b">>
        [] nib3 = 14 /\ lb = 0   -> <<"d", "p", "s">>
        [] nib3 = 14 /\ lb = 1   -> <<"d", "p", "g">>
        [] nib3 = 14 /\ lb = 30  -> <<"m", "p", "a", "r">>
        [] nib3 = 14 /\ lb = 85  -> <<"s", "p", "l">>
        [] nib3 = 14 /\ lb = 101 -> <<"l", "d">>
        [] nib3 = 15 -> <<"w", "r", "b">>
        [] OTHER     -> <<>>

\* C26: the opcode the assembler emits for a mnemonic is the one the VM
\* decodes as that instruction: rdb gives DXNN, wrb gives FXNN, and no
\* mnemonic gives an opcode without a handler.
C26_Encodings ==
  (call.fn = "statement" /\ IsMnemonic(call.token)) =>
    Decoded(opcodes[call.at + 1]) = call.token

\* ------------------------------------------------- MemoryDevice claims

\* a byte list fits in the buffer from the cursor
Fits(bytes) == IsWord(device_ptr) /\ Val(device_ptr) + Len(bytes) <= W

\* C27: with the cursor at p and a byte list that fits in the buffer from
\* p, write(bs) changes no cell outside [p, p + len(bs)) and leaves the
\* cursor at p, and a read(len(bs)) that follows returns bs.
C27_RoundTrip ==
  /\ (call.fn = "write" /\ Fits(call.bytes)) =>
       /\ call.exc = ""
       /\ \A a \in (DOMAIN device_memory) \cup (DOMAIN call.memory) :
            (a < Val(device_ptr) \/ a >= Val(device_ptr) + Len(call.bytes))
              => DeviceCell(VM, a) = DeviceCell([device_memory |-> call.memory], a)
  /\ (/\ call.fn = "read"
      /\ call.before.fn = "write"
      /\ Fits(call.before.bytes)
      /\ call.nbytes = Len(call.before.bytes)) =>
       call.result = call.before.bytes
  /\ (call.fn = "get_ptr" /\ call.before.fn = "write") =>
       call.result = device_ptr

\* ------------------------------------------------ build_opcode, tokens

\* build_opcode has returned for a tuple of n fields
Built(n) ==
  /\ call.fn = "build_opcode"
  /\ call.state = "returned"
  /\ Len(call.arg) = n

IsNibble(v) == 0 <= v /\ v < 16

\* C28: build_opcode packs its fields most significant first: (a, b, c, d)
\* gives a<<12 | b<<8 | c<<4 | d, (a, b, nn) gives a<<12 | b<<8 | nn and
\* (a, nnn) gives a<<12 | nnn; get_nibble(word, 3) is a and the other
\* fields come back by get_nibble, low_byte and word & 0xFFF.
C28_BuildOpcode ==
  LET ops  == call.arg
      word == call.result
  IN
  /\ (/\ Built(4)
      /\ \A k \in 1..4 : IsNibble(ops[k])) =>
       /\ word = ops[1] * 4096 + ops[2] * 256 + ops[3] * 16 + ops[4]
       /\ \A k \in 1..4 : get_nibble(word, 4 - k) = ops[k]
  /\ (/\ Built(3)
      /\ IsNibble(ops[1]) /\ IsNibble(ops[2])
      /\ 0 <= ops[3] /\ ops[3] < 256) =>
       /\ word = ops[1] * 4096 + ops[2] * 256 + ops[3]
       /\ get_nibble(word, 3) = ops[1]
       /\ get_nibble(word, 2) = ops[2]
       /\ low_byte(word) = ops[3]
  /\ (/\ Built(2)
      /\ IsNibble(ops[1])
      /\ 0 <= ops[2] /\ ops[2] < 4096) =>
       /\ word = ops[1] * 4096 + ops[2]
       /\ get_nibble(word, 3) = ops[1]
       /\ BitAnd(word, 4095) = ops[2]

\* the tuples of the three tests have been packed
C28_Witness ==
  \/ Built(4) /\ call.arg = <<8, 0, 1, 15>> /\ call.result = 32799
  \/ Built(3) /\ call.arg = <<15, 1, 170>> /\ call.result = 61866
  \/ Built(2) /\ call.arg = <<2, 2748>> /\ call.result = 10940

\* C29: the register mnemonics are r0..r9, rA..rF and the device mnemonics
\* dev0..dev9, devA..devF, and reg_tk_int and dev_tk_int give each of them
\* its index.
C29_Mnemonics ==
  /\ register_mnemonics =
       << <<"r", "0">>, <<"r", "1">>, <<"r", "2">>, <<"r", "3">>,
          <<"r", "4">>, <<"r", "5">>, <<"r", "6">>, <<"r", "7">>,
          <<"r", "8">>, <<"r", "9">>, <<"r", "A">>, <<"r", "B">>,
          <<"r", "C">>, <<"r", "D">>, <<"r", "E">>, <<"r", "F">> >>
  /\ device_mnemonics =
       << <<"d", "e", "v", "0">>, <<"d", "e", "v", "1">>,
          <<"d", "e", "v", "2">>, <<"d", "e", "v", "3">>,
          <<"d", "e", "v", "4">>, <<"d", "e", "v", "5">>,
          <<"d", "e", "v", "6">>, <<"d", "e", "v", "7">>,
          <<"d", "e", "v", "8">>, <<"d", "e", "v", "9">>,
          <<"d", "e", "v", "A">>, <<"d", "e", "v", "B">>,
          <<"d", "e", "v", "C">>, <<"d", "e", "v", "D">>,
          <<"d", "e", "v", "E">>, <<"d", "e", "v", "F">> >>
  /\ \A i \in 0..15 :
       /\ (/\ call.fn = "reg_tk_int"
           /\ call.state = "returned"
           /\ call.arg = register_mnemonics[i + 1]) => call.result = i
       /\ (/\ call.fn = "dev_tk_int"
           /\ call.state = "returned"
           /\ call.arg = device_mnemonics[i + 1]) => call.result = i

\* reg_tk_int has returned 15 for rF, or dev_tk_int 11 for devB
C29_Witness ==
  /\ call.state = "returned"
  /\ \/ call.fn = "reg_tk_int" /\ call.arg = <<"r", "F">> /\ call.result = 15
     \/ /\ call.fn = "dev_tk_int"
        /\ call.arg = <<"d", "e", "v", "B">>
        /\ call.result = 11

\* -------------------------------------------------- the memory index i

\* the last instruction is one of SPL, LDR, RDB, WRB, the device of RDB and
\* WRB is a MemoryDevice, and the bytes from i and from the cursor exist
MemoryAccess ==
  /\ last.kind \in {"step", "fault"}
  /\ AccessLen > 0
  /\ IsWord(last.memory_ptr)
  /\ Val(last.memory_ptr) + AccessLen <= MemSize
  /\ get_nibble(last.opcode, 3) \in {13, 15} =>
       /\ last.devices[LastX] = "MemoryDevice"
       /\ IsWord(last.device_ptr)
       /\ Val(last.device_ptr) + AccessLen <= W

\* C30: SMP sets i to NNN and MPAR adds Vx to it, no other instruction
\* changes i, and SPL, LDR, RDB and WRB access the RAM from i: SPL stores
\* Vx there, LDR loads Vx from there, WRB writes the bytes from there to
\* the device and RDB stores the bytes of the device there.
C30_MemoryIndex ==
  LET i == Val(last.memory_ptr) IN
  /\ LastIs(10) => memory_ptr.v = <<LastNNN, 0, 0, 0>>
  /\ (Stepped /\ LastIsE(30)) =>
       memory_ptr.v = AddL(last.memory_ptr.v, OldVx.v)
  /\ (Stepped /\ ~LastIs(10) /\ ~LastIsE(30)) =>
       memory_ptr = last.memory_ptr
  /\ MemoryAccess =>
       /\ Stepped
       /\ LastIsE(85) => WordAt(i) = Val(OldVx) % W
       /\ LastIsE(101) => registers[LastX].v = <<WordAt(i), 0, 0, 0>>
       /\ LastIs(15) =>
            \A k \in 0..(LastNN - 1) :
              DeviceCell(VM, Val(last.device_ptr) + k) = memory[i + k]
       /\ LastIs(13) =>
            \A k \in 0..(LastNN - 1) :
              memory[i + k] = DeviceCell(VM, Val(last.device_ptr) + k)

\* ------------------------------------------------- back-patching claims

\* the positions in opcodes of the placeholders of the gotos and calls
\* that named a symbol before any line defined it
Placeholders(symbol) ==
  { history[i].at + 1 :
      i \in { r \in Refs :
                /\ RefSymbol(history[r]) = symbol
                /\ \A j \in Defs(symbol) : r < j } }

\* the positions in opcodes that the goto entries of a symbol record
PatchPositions(symbol) ==
  { (symbol_table[symbol][k][2] \div 2) + 1 :
      k \in { e \in DOMAIN symbol_table[symbol] :
                symbol_table[symbol][e][1] = "goto" } }

\* the iteration about to run is a label definition
DefinitionNext ==
  /\ phase = "assembling"
  /\ HasToken(Assembler)
  /\ ~IsMnemonic(Tok(Assembler))

\* every recorded patch position is the placeholder of a goto or call
\* that names the symbol
OwnPlaceholders ==
  \A s \in DOMAIN symbol_table :
    PatchPositions(s) \subseteq
      { history[i].at + 1 :
          i \in {r \in Refs : RefSymbol(history[r]) = s} }

\* C31: a label definition changes only the opcodes of the gotos and calls
\* that named the label while it was undefined, and only their low 12
\* bits; every other opcode is unchanged, and each pending entry records
\* the position of its own placeholder.
C31_BackPatch ==
  [][ /\ (DefinitionNext /\ call'.fn \in {"statement", "fault"}) =>
           /\ Len(opcodes') = Len(opcodes)
           /\ \A k \in DOMAIN opcodes :
                /\ k \notin Placeholders(Tok(Assembler)) =>
                     opcodes'[k] = opcodes[k]
                /\ get_nibble(opcodes'[k], 3) = get_nibble(opcodes[k], 3)
      /\ OwnPlaceholders' ]_vars

\* a goto or call among the completed iterations that names a label some
\* line has defined and carries an address (a placeholder carries 0)
Resolved(i) ==
  /\ IsRef(history[i])
  /\ Defs(RefSymbol(history[i])) # {}
  /\ BitAnd(WordOf(history[i]), 4095) # 0

\* C32: the opcode of a goto or call that has been resolved to a label's
\* address, emitted with it or back-patched, never changes in the rest of
\* the assembly, a second definition of the label included.
C32_ResolvedStays ==
  [][ \A i \in DOMAIN history :
        Resolved(i) =>
          opcodes'[history[i].at + 1] = opcodes[history[i].at + 1] ]_vars

\* ------------------------------------------------- isolation

\* what the instructions of the first object read and write: its fields
\* and the console of its device table
OfFirst ==
  <<memory, registers, stack, code_ptr, memory_ptr, alert, devices,
    IF devices[0] = "ConsoleIO" THEN format_code ELSE U16(0)>>

\* the same of the second object
OfSecond ==
  <<other.memory, other.registers, other.stack, other.code_ptr,
    other.memory_ptr, other.alert, other.devices,
    IF other.devices[0] = "ConsoleIO" THEN format_code ELSE U16(0)>>

\* C33: two machines constructed without a device table are isolated: a
\* call on one of them, execute or reset, changes nothing that an
\* instruction of the other reads, the format code that DPG dev0 returns
\* included.
C33_Isolation ==
  [][ /\ other'.calls = other.calls => OfSecond' = OfSecond
      /\ other'.calls # other.calls => OfFirst' = OfFirst ]_vars

\* ------------------------------------------------- tokeniser claims

\* a source text without its comments: every # and the characters after
\* it up to and including the next newline are left out
RECURSIVE Uncommented(_, _, _)
Uncommented(s, k, inside) ==
  IF k > Len(s) THEN <<>>
  ELSE IF inside THEN Uncommented(s, k + 1, s[k] # "\n")
  ELSE IF s[k] = "#" THEN Uncommented(s, k + 1, TRUE)
  ELSE <<s[k]>> \o Uncommented(s, k + 1, FALSE)

IsIdentifierChar(char) == isalnum(char) \/ char = "_"

\* the last position of the run of identifier characters that starts at i
RECURSIVE RunEnd(_, _)
RunEnd(t, i) ==
  IF i < Len(t) /\ IsIdentifierChar(t[i + 1]) THEN RunEnd(t, i + 1) ELSE i

\* the tokens of a text without comments from position i on: one for
\* every comma and colon, one for every maximal run of identifier
\* characters, none for any other character
RECURSIVE TokensOf(_, _)
TokensOf(t, i) ==
  IF i > Len(t) THEN <<>>
  ELSE IF t[i] \in {",", ":"} THEN <<(<<t[i]>>)>> \o TokensOf(t, i + 1)
  ELSE IF IsIdentifierChar(t[i])
       THEN <<SubSeq(t, i, RunEnd(t, i))>> \o TokensOf(t, RunEnd(t, i) + 1)
  ELSE TokensOf(t, i + 1)

\* C34: tokenise(s) is tokenise of s without its comments, and its tokens
\* are one for every comma and colon outside a comment and one for every
\* maximal run of letters, digits and underscores outside comments, in the
\* order of the text; whitespace gives no token.
C34_Tokenise ==
  (call.fn = "tokenise" /\ call.state = "returned") =>
     LET t == Uncommented(call.arg, 1, FALSE) IN
     /\ call.result = tokenise(t)
     /\ call.result = TokensOf(t, 1)

====
